---- MODULE Spec2Model ----
(***************************************************************************)
(* State-machine model of the BMD WP3 / T3.3 pipeline:                     *)
(*   core/02_filter_gbif_dataset.py          (quality filter + report)     *)
(*   natura2k/03_spatial_join_gbif_natura.py (left spatial join)           *)
(*   natura2k/04_basic_metrics_gbif_natura.py, 05_advanced_metrics_...     *)
(*   core/01_download_gbif.py                (acquisition from GBIF)       *)
(*   core/helpers/filtered_data_summary.py   (summary splitter)            *)
(*   natura2k/02_prepare_natura_sites.py     (site preparation)            *)
(*   natura2k/01_validate_spatial_input.py   (spatial validation)          *)
(*                                                                         *)
(* Conventions.  A text cell of a delimited table is a string, the empty   *)
(* string being the missing value (pandas reads it as NaN).  A numeric     *)
(* cell, and a Python Optional, is a sequence of length <= 1: << >> is     *)
(* NaN / None, <<n>> is the number n.                                      *)
(***************************************************************************)
EXTENDS Integers, Sequences, FiniteSets, TLC

VARIABLES
    \* ---- 02_filter_gbif_dataset.py ----
    cfg,              \* LAT_MIN .. YEAR_MAX (lines 150-157)
    chunkSize,        \* CHUNK_SIZE (line 89), scaled down
    raw,              \* occurrence.txt inside ZIP_FILE: sequence of text rows
    pos,              \* rows already delivered by the chunk iterator
    first_chunk,      \* the reader has not yet delivered its first chunk
    total_records,
    filtered_records,
    filtered_data,    \* list of filtered chunks
    species_counter, taxon_counter, country_counter, basis_counter, year_counter,
    filtered_df,      \* << >> while the name is unbound, <<table>> once bound
    FILTERED_FILE,    \* << >> while the file does not exist, <<table>> once written
    REPORT_FILE,      \* << >> no file, <<"open">> truncated, <<stats>> written
    stdout,           \* sequence of printed lines
    pc,               \* "read", "report", "done", "NameError"; "idle" in the other stages
    \* ---- 03_spatial_join_gbif_natura.py ----
    df_points,        \* the filtered occurrence table, as read from INNER_CSV
    natura_src,       \* the layer NATURA_LAYER stored in NATURA_GPKG
    gdf_natura,       \* << >> until loaded
    gdf_natura_join,  \* << >> until the join columns are selected
    gdf_joined,       \* << >> until the join has run
    match_report,     \* << >>, or <<[n_matched, n_rows]>> once logged
    OUTPUT_GPKG,      \* << >> while the file does not exist
    jpc,              \* "start", "loaded", "selected", "joined", "saved", "ValueError"
    \* ---- 04_basic_metrics_gbif_natura.py / 05_advanced_metrics_gbif_natura.py ----
    script,           \* which of the two metrics scripts runs: "04" or "05"
    joined_tab,       \* the table read from JOINED_GPKG: [columns, rows]
    df_in_site,       \* << >> until filtered, then <<rows>>
    SITES_METRICS_CSV, MS_METRICS_CSV,                         \* outputs of 04
    SPECIES_METRICS_CSV, SITETYPE_METRICS_CSV, SITES_GAPS_CSV, \* outputs of 05
    mlog,             \* the lines logged
    exit_status,      \* << >> while running, <<0>> success, <<1>> uncaught exception
    mpc,              \* position in the script
    \* ---- 01_download_gbif.py ----
    USERNAME, PASSWORD, EMAIL,   \* os.getenv results: << >> unset, <<text>> set
    species_df,       \* the species list SPECIES_FILE: sequence of text rows
    usage_keys,       \* << >> until built, then <<list of keys>>
    net,              \* the file and network operations performed, in order
    posted,           \* << >>, or <<TAXON_KEY values>> of the predicate sent
    response,         \* << >>, or <<status code>> of the submit response
    state,            \* << >> (no status field), or <<text>>: the last polled status
    polls,            \* number of status checks made
    slept,            \* seconds spent in time.sleep
    OUTPUT_FILE,      \* << >> while the archive does not exist
    dstdout,          \* lines printed
    dexit,            \* << >> while running, or <<[code, message]>> of sys.exit
    dpc,              \* position in the script
    \* ---- helpers/filtered_data_summary.py ----
    summary_df,       \* df: the filtered table read from the ZIP, [columns, rows]
    SPECIES_FILE, COUNTRY_FILE, YEAR_FILE, BASIS_FILE,   \* << >> until written
    spc,              \* position in the script
    \* ---- 02_prepare_natura_sites.py ----
    NATURA_GPKG,      \* the source layer
    gdf,              \* << >> until loaded
    gdf_clean,        \* << >> until the columns are selected
    PREPARED_GPKG,    \* OUTPUT_GPKG of this script: << >> while the file does not exist
    plog,             \* the lines logged
    ppc,              \* position in the script
    \* ---- 01_validate_spatial_input.py ----
    validate_zip,     \* the rows of INNER_CSV stored inside ZIP_PATH
    validate_df,      \* df: << >> until loaded, then <<rows>>
    vlog,             \* the lines logged, as [key, value] records
    vpc,              \* position in the script
    \* ---- the stages run one after the other on one file system ----
    names,            \* DATASET_NAME as set in each script
    files,            \* the paths that exist, each with its container format
    found,            \* per stage run so far: whether it found its input
    hpc               \* number of stages run

filterVars == <<cfg, chunkSize, raw, pos, first_chunk, total_records, filtered_records,
                filtered_data, species_counter, taxon_counter, country_counter,
                basis_counter, year_counter, filtered_df, FILTERED_FILE, REPORT_FILE,
                stdout, pc>>

joinVars == <<df_points, natura_src, gdf_natura, gdf_natura_join, gdf_joined,
              match_report, OUTPUT_GPKG, jpc>>

metricsVars == <<script, joined_tab, df_in_site, SITES_METRICS_CSV, MS_METRICS_CSV,
                 SPECIES_METRICS_CSV, SITETYPE_METRICS_CSV, SITES_GAPS_CSV, mlog,
                 exit_status, mpc>>

downloadVars == <<USERNAME, PASSWORD, EMAIL, species_df, usage_keys, net, posted,
                  response, state, polls, slept, OUTPUT_FILE, dstdout, dexit, dpc>>

summaryVars == <<summary_df, SPECIES_FILE, COUNTRY_FILE, YEAR_FILE, BASIS_FILE, spc>>

prepareVars == <<NATURA_GPKG, gdf, gdf_clean, PREPARED_GPKG, plog, ppc>>

validateVars == <<validate_zip, validate_df, vlog, vpc>>

handoffVars == <<names, files, found, hpc>>

vars == <<filterVars, joinVars, metricsVars, downloadVars, summaryVars, prepareVars,
          validateVars, handoffVars>>

(***************************************************************************)
(* Bounds of the model                                                     *)
(***************************************************************************)
MaxRows == 3            \* longest raw table built from NarrowRows
MaxDeviations == 2      \* fields in which a one-row table's row leaves BaseRow
MaxPoints == 2          \* longest occurrence table handed to the spatial join
MaxEnriched == 2        \* longest enriched table handed to the metrics scripts
MaxSpecies == 2         \* longest species list handed to the download script
MaxPolls == 3           \* status checks after which the model stops following a job
MaxSummary == 3         \* longest filtered table handed to the summary helper
MaxValidate == 2        \* longest filtered table handed to the spatial validator

(***************************************************************************)
(* Generic helpers                                                         *)
(***************************************************************************)
None == << >>
Some(v) == <<v>>

Range(s) == {s[i] : i \in 1..Len(s)}

RECURSIVE SeqsUpTo(_, _)
SeqsUpTo(S, n) ==
    IF n = 0 THEN {<< >>}
    ELSE LET shorter == SeqsUpTo(S, n - 1)
         IN  shorter \cup {Append(s, x) : s \in {t \in shorter : Len(t) = n - 1}, x \in S}

RECURSIVE Flatten(_)
\* mutant: the batches are concatenated last to first
Flatten_reversed(ss) == IF ss = << >> THEN << >> ELSE Flatten(Tail(ss)) \o Head(ss)

\* pd.concat(list of tables, ignore_index=True)
Flatten(ss) == IF ss = << >> THEN << >> ELSE Head(ss) \o Flatten(Tail(ss))

Min(S) == CHOOSE x \in S : \A y \in S : x <= y
Max(S) == CHOOSE x \in S : \A y \in S : x >= y

RECURSIVE SumOver(_, _)
SumOver(f, S) ==
    IF S = {} THEN 0
    ELSE LET k == CHOOSE x \in S : TRUE IN f[k] + SumOver(f, S \ {k})

(***************************************************************************)
(* pandas primitives used by the filter stage                              *)
(***************************************************************************)
\* The numeric texts that occur in the modelled tables, with their values.
ParseTable ==
    ("0" :> 0) @@ ("30" :> 30) @@ ("40" :> 40) @@ ("50" :> 50) @@
    ("10" :> 10) @@ ("20" :> 20) @@ ("99" :> 99) @@
    ("999" :> 999) @@ ("1000" :> 1000) @@ ("1500" :> 1500) @@
    ("1990" :> 1990) @@ ("2000" :> 2000) @@ ("2010" :> 2010)

\* pd.to_numeric(..., errors="coerce"): a number, or NaN for missing / unparsable text
to_numeric(s) == IF s \in DOMAIN ParseTable THEN Some(ParseTable[s]) ELSE None

\* mutant: the fillna(0) is left out, so NaN reaches the comparison
fillna0_skipped(x) == x

\* Series.fillna(0)
fillna0(x) == IF x = None THEN Some(0) ELSE x

\* element-wise comparisons of a numeric Series with a scalar: NaN compares False
GE(x, b) == x # None /\ x[1] >= b
LE(x, b) == x # None /\ x[1] <= b
LT(x, b) == x # None /\ x[1] < b

Column(chunk, f) == [i \in 1..Len(chunk) |-> chunk[i][f]]
DropnaText(col) == SelectSeq(col, LAMBDA x : x # "")
DropnaNum(col) == SelectSeq(col, LAMBDA x : x # None)
Values(col) == [i \in 1..Len(col) |-> col[i][1]]

\* collections.Counter()
EmptyCounter == [k \in {} |-> 0]

CountIn(items, k) == Cardinality({i \in 1..Len(items) : items[i] = k})

\* mutant: the counts of the latest batch replace those of the earlier ones
CounterUpdate_overwrite(counter, items) == [k \in Range(items) |-> CountIn(items, k)]

\* Counter.update(iterable)
CounterUpdate(counter, items) ==
    [k \in DOMAIN counter \cup Range(items) |->
        (IF k \in DOMAIN counter THEN counter[k] ELSE 0) + CountIn(items, k)]

(***************************************************************************)
(* Configuration and inputs of the filter stage                            *)
(***************************************************************************)
ALLOWED_BASIS == {"HUMAN_OBSERVATION", "MACHINE_OBSERVATION", "PRESERVED_SPECIMEN"}

\* every combination of set / unset optional bounds
Configs ==
    [LAT_MIN : {None, Some(40)}, LAT_MAX : {None, Some(40)},
     LON_MIN : {None, Some(20)}, LON_MAX : {None, Some(20)},
     YEAR_MIN : {None, Some(2000)}, YEAR_MAX : {None, Some(2000)}]

ChunkSizes == {1, 2}

BaseRow ==
    [scientificName |-> "Apis mellifera", taxonKey |-> "1341976",
     decimalLatitude |-> "40", decimalLongitude |-> "20", countryCode |-> "GR",
     basisOfRecord |-> "HUMAN_OBSERVATION", coordinateUncertaintyInMeters |-> "",
     year |-> "2000"]

FieldValues ==
    [scientificName : {"", "Apis mellifera"},
     taxonKey : {"", "1341976"},
     decimalLatitude : {"", "abc", "30", "40", "50"},
     decimalLongitude : {"", "abc", "10", "20", "30"},
     countryCode : {"", "GR"},
     basisOfRecord : {"", "HUMAN_OBSERVATION", "FOSSIL_SPECIMEN"},
     coordinateUncertaintyInMeters : {"", "abc", "999", "1000", "1500"},
     year : {"", "abc", "1990", "2000", "2010"}]

\* rows for one-row tables: BaseRow changed in at most MaxDeviations fields
WideRows ==
    {r \in FieldValues :
        Cardinality({f \in DOMAIN BaseRow : r[f] # BaseRow[f]}) <= MaxDeviations}

\* rows for the longer tables
NarrowRows ==
    {BaseRow,
     [BaseRow EXCEPT !.scientificName = "Bombus terrestris", !.taxonKey = "1340503",
                     !.countryCode = "", !.basisOfRecord = "PRESERVED_SPECIMEN",
                     !.coordinateUncertaintyInMeters = "abc", !.year = "",
                     !.decimalLatitude = "30"],
     [BaseRow EXCEPT !.basisOfRecord = "FOSSIL_SPECIMEN"],
     [BaseRow EXCEPT !.coordinateUncertaintyInMeters = "1500", !.year = "2010"],
     [BaseRow EXCEPT !.decimalLatitude = "abc", !.year = "1990"]}

OneRowTables == {<<r>> : r \in WideRows}

(***************************************************************************)
(* The loop body of the filter stage, step by step                         *)
(***************************************************************************)
\* the chunk the reader delivers next; each row carries its DataFrame index
NextChunk(table, p, n) ==
    LET last == IF p + n <= Len(table) THEN p + n ELSE Len(table)
    IN  [j \in 1..(last - p) |-> ("idx" :> (p + j)) @@ table[p + j]]

\* 1. chunk.dropna(subset=[scientificName, taxonKey, decimalLatitude, decimalLongitude])
DropnaCore(chunk) ==
    SelectSeq(chunk, LAMBDA r : /\ r.scientificName # ""
                                /\ r.taxonKey # ""
                                /\ r.decimalLatitude # ""
                                /\ r.decimalLongitude # "")

\* 2. pd.to_numeric(..., errors="coerce") on the four numeric columns
Coerce(chunk) ==
    [i \in 1..Len(chunk) |->
        [chunk[i] EXCEPT !.decimalLatitude = to_numeric(@),
                         !.decimalLongitude = to_numeric(@),
                         !.coordinateUncertaintyInMeters = to_numeric(@),
                         !.year = to_numeric(@)]]

\* mutant: rows without a year are dropped whether or not a year bound is set
DropnaYear_always(chunk, c) == SelectSeq(chunk, LAMBDA r : r.year # None)

\* 3. if a year bound is set, chunk.dropna(subset=["year"])
DropnaYear(chunk, c) ==
    IF c.YEAR_MIN # None \/ c.YEAR_MAX # None
    THEN SelectSeq(chunk, LAMBDA r : r.year # None)
    ELSE chunk

\* mask &= chunk["basisOfRecord"].isin(ALLOWED_BASIS)
BasisMask(r) == r.basisOfRecord \in ALLOWED_BASIS

\* mutant: the threshold is inclusive
UncertaintyMask_inclusive(r) == LE(fillna0(r.coordinateUncertaintyInMeters), 1000)

\* mask &= chunk["coordinateUncertaintyInMeters"].fillna(0) < 1000
UncertaintyMask(r) == LT(fillna0(r.coordinateUncertaintyInMeters), 1000)

\* optional spatial filtering
SpatialMask(r, c) ==
    (\E b \in {c.LAT_MIN, c.LAT_MAX, c.LON_MIN, c.LON_MAX} : b # None) =>
        /\ c.LAT_MIN # None => GE(r.decimalLatitude, c.LAT_MIN[1])
        /\ c.LAT_MAX # None => LE(r.decimalLatitude, c.LAT_MAX[1])
        /\ c.LON_MIN # None => GE(r.decimalLongitude, c.LON_MIN[1])
        /\ c.LON_MAX # None => LE(r.decimalLongitude, c.LON_MAX[1])

\* mutant: the YEAR_MAX test is an elif of the YEAR_MIN test
TemporalMask_elif(r, c) ==
    IF c.YEAR_MIN # None THEN GE(r.year, c.YEAR_MIN[1])
    ELSE c.YEAR_MAX # None => LE(r.year, c.YEAR_MAX[1])

\* optional temporal filtering
TemporalMask(r, c) ==
    /\ c.YEAR_MIN # None => GE(r.year, c.YEAR_MIN[1])
    /\ c.YEAR_MAX # None => LE(r.year, c.YEAR_MAX[1])

Mask(r, c) ==
    BasisMask(r) /\ UncertaintyMask(r) /\ SpatialMask(r, c) /\ TemporalMask(r, c)

\* steps 1-5: filtered_chunk
FilterChunk(chunk, c) ==
    SelectSeq(DropnaYear(Coerce(DropnaCore(chunk)), c), LAMBDA r : Mask(r, c))

\* the whole loop: the concatenation of the filtered chunks of a table read n rows at a time
RECURSIVE FilterFrom(_, _, _, _)
FilterFrom(table, p, n, c) ==
    IF p >= Len(table) THEN << >>
    ELSE FilterChunk(NextChunk(table, p, n), c) \o FilterFrom(table, p + n, n, c)

\* mutant: the counters are fed before the mask is applied
CounterRows_unmasked(chunk, filtered_chunk) == Coerce(DropnaCore(chunk))

\* the rows whose values feed the counters in step 6
CounterRows(chunk, filtered_chunk) == filtered_chunk

\* the other stages' variables while a stage runs on its own
JoinIdle ==
    /\ df_points = << >> /\ natura_src = << >> /\ gdf_natura = << >>
    /\ gdf_natura_join = << >> /\ gdf_joined = << >> /\ match_report = << >>
    /\ OUTPUT_GPKG = << >> /\ jpc = "idle"

MetricsIdle ==
    /\ script = "" /\ joined_tab = << >> /\ df_in_site = << >>
    /\ SITES_METRICS_CSV = << >> /\ MS_METRICS_CSV = << >>
    /\ SPECIES_METRICS_CSV = << >> /\ SITETYPE_METRICS_CSV = << >>
    /\ SITES_GAPS_CSV = << >> /\ mlog = << >> /\ exit_status = << >> /\ mpc = "idle"

FilterIdle ==
    /\ cfg = << >> /\ chunkSize = 0 /\ raw = << >> /\ pos = 0 /\ first_chunk = FALSE
    /\ total_records = 0 /\ filtered_records = 0 /\ filtered_data = << >>
    /\ species_counter = << >> /\ taxon_counter = << >> /\ country_counter = << >>
    /\ basis_counter = << >> /\ year_counter = << >> /\ filtered_df = << >>
    /\ FILTERED_FILE = << >> /\ REPORT_FILE = << >> /\ stdout = << >> /\ pc = "idle"

DownloadIdle ==
    /\ USERNAME = << >> /\ PASSWORD = << >> /\ EMAIL = << >> /\ species_df = << >>
    /\ usage_keys = << >> /\ net = << >> /\ posted = << >> /\ response = << >>
    /\ state = << >> /\ polls = 0 /\ slept = 0 /\ OUTPUT_FILE = << >>
    /\ dstdout = << >> /\ dexit = << >> /\ dpc = "idle"

SummaryIdle ==
    /\ summary_df = << >> /\ SPECIES_FILE = << >> /\ COUNTRY_FILE = << >> /\ YEAR_FILE = << >>
    /\ BASIS_FILE = << >> /\ spc = "idle"

PrepareIdle ==
    /\ NATURA_GPKG = << >> /\ gdf = << >> /\ gdf_clean = << >>
    /\ PREPARED_GPKG = << >> /\ plog = << >> /\ ppc = "idle"

ValidateIdle ==
    /\ validate_zip = << >> /\ validate_df = << >> /\ vlog = << >> /\ vpc = "idle"

HandoffIdle ==
    /\ names = << >> /\ files = {} /\ found = << >> /\ hpc = 0

(***************************************************************************)
(* Filter stage: state machine                                             *)
(***************************************************************************)
FilterInit ==
    /\ cfg \in Configs
    /\ \/ raw \in OneRowTables /\ chunkSize = 1
       \/ raw \in SeqsUpTo(NarrowRows, MaxRows) /\ chunkSize \in ChunkSizes
    /\ pos = 0
    /\ first_chunk = TRUE
    /\ total_records = 0
    /\ filtered_records = 0
    /\ filtered_data = << >>
    /\ species_counter = EmptyCounter
    /\ taxon_counter = EmptyCounter
    /\ country_counter = EmptyCounter
    /\ basis_counter = EmptyCounter
    /\ year_counter = EmptyCounter
    /\ filtered_df = None
    /\ FILTERED_FILE = None
    /\ REPORT_FILE = None
    /\ stdout = << >>
    /\ pc = "read"
    /\ JoinIdle
    /\ MetricsIdle
    /\ DownloadIdle /\ SummaryIdle /\ PrepareIdle
    /\ ValidateIdle /\ HandoffIdle

\* One iteration of `for chunk in pd.read_csv(..., chunksize=CHUNK_SIZE)`.
\* A table without data rows still yields one (empty) first chunk.
ProcessChunk ==
    /\ pc = "read"
    /\ first_chunk \/ pos < Len(raw)
    /\ LET chunk == NextChunk(raw, pos, chunkSize)
           filtered_chunk == FilterChunk(chunk, cfg)
           counted == CounterRows(chunk, filtered_chunk)
       IN  /\ total_records' = total_records + Len(chunk)
           /\ pos' = pos + Len(chunk)
           /\ IF filtered_chunk # << >>
              THEN /\ species_counter' =
                        CounterUpdate(species_counter, Column(counted, "scientificName"))
                   /\ taxon_counter' =
                        CounterUpdate(taxon_counter, Column(counted, "taxonKey"))
                   /\ country_counter' =
                        CounterUpdate(country_counter,
                                      DropnaText(Column(counted, "countryCode")))
                   /\ basis_counter' =
                        CounterUpdate(basis_counter,
                                      DropnaText(Column(counted, "basisOfRecord")))
                   /\ year_counter' =
                        CounterUpdate(year_counter,
                                      Values(DropnaNum(Column(counted, "year"))))
              ELSE UNCHANGED <<species_counter, taxon_counter, country_counter,
                               basis_counter, year_counter>>
           /\ filtered_records' = filtered_records + Len(filtered_chunk)
           /\ filtered_data' = Append(filtered_data, filtered_chunk)
    /\ first_chunk' = FALSE
    /\ UNCHANGED <<cfg, chunkSize, raw, filtered_df, FILTERED_FILE, REPORT_FILE,
                   stdout, pc>>
    /\ UNCHANGED <<joinVars, metricsVars, downloadVars, summaryVars, prepareVars,
                   validateVars, handoffVars>>

\* lines 256-260: concatenate and persist, or print the diagnostic
Persist ==
    /\ pc = "read"
    /\ ~first_chunk /\ pos >= Len(raw)
    /\ IF filtered_data # << >>
       THEN /\ filtered_df' = Some(Flatten(filtered_data))
            /\ FILTERED_FILE' = Some(Flatten(filtered_data))
            /\ UNCHANGED stdout
       ELSE /\ stdout' = Append(stdout, "No data after filtering.")
            /\ UNCHANGED <<filtered_df, FILTERED_FILE>>
    /\ pc' = "report"
    /\ UNCHANGED <<cfg, chunkSize, raw, pos, first_chunk, total_records,
                   filtered_records, filtered_data, species_counter, taxon_counter,
                   country_counter, basis_counter, year_counter, REPORT_FILE>>
    /\ UNCHANGED <<joinVars, metricsVars, downloadVars, summaryVars, prepareVars,
                   validateVars, handoffVars>>

\* min / max of a numeric column, skipping NaN; NaN when nothing is left
ColMin(table, f) ==
    LET v == Range(Values(DropnaNum(Column(table, f))))
    IN  IF v = {} THEN None ELSE Some(Min(v))
ColMax(table, f) ==
    LET v == Range(Values(DropnaNum(Column(table, f))))
    IN  IF v = {} THEN None ELSE Some(Max(v))

\* line 390: year_counter rebuilt with int keys, keeping the keys whose text is all digits
ReportYearCounter(counter) ==
    [k \in {y \in DOMAIN counter : y >= 0} |-> counter[k]]

\* the statistics the report prints (lines 330-407)
ReportStats ==
    LET df == filtered_df[1]
    IN  [total_records |-> total_records,
         filtered_records |-> filtered_records,
         unique_species |-> Cardinality(DOMAIN species_counter),
         unique_taxa |-> Cardinality(DOMAIN taxon_counter),
         \* ratio = filtered_records / total_records * 100, 0 for an empty input
         ratio |-> IF total_records > 0
                   THEN <<filtered_records * 100, total_records>> ELSE <<0, 1>>,
         year_range |-> <<ColMin(df, "year"), ColMax(df, "year")>>,
         n_countries |-> Cardinality(DOMAIN country_counter),
         lat_range |-> <<ColMin(df, "decimalLatitude"), ColMax(df, "decimalLatitude")>>,
         lon_range |-> <<ColMin(df, "decimalLongitude"), ColMax(df, "decimalLongitude")>>,
         basis |-> basis_counter,
         species |-> species_counter,
         countries |-> country_counter,
         years |-> ReportYearCounter(year_counter)]

\* lines 278-410: the report reads filtered_df, which is unbound unless Persist bound it
WriteReport ==
    /\ pc = "report"
    /\ IF filtered_df = None
       THEN /\ REPORT_FILE' = Some("open")
            /\ pc' = "NameError"
            /\ UNCHANGED <<year_counter, stdout>>
       ELSE /\ REPORT_FILE' = Some(ReportStats)
            /\ year_counter' = ReportYearCounter(year_counter)
            /\ stdout' = stdout \o <<"Report saved to", "Filtered dataset saved to">>
            /\ pc' = "done"
    /\ UNCHANGED <<cfg, chunkSize, raw, pos, first_chunk, total_records,
                   filtered_records, filtered_data, species_counter, taxon_counter,
                   country_counter, basis_counter, filtered_df, FILTERED_FILE>>
    /\ UNCHANGED <<joinVars, metricsVars, downloadVars, summaryVars, prepareVars,
                   validateVars, handoffVars>>

FilterNext == ProcessChunk \/ Persist \/ WriteReport

FilterSpec == FilterInit /\ [][FilterNext]_vars

(***************************************************************************)
(* Properties of the filter stage                                          *)
(***************************************************************************)
SurvivorRows == Flatten(filtered_data)
IdxOf(table) == {table[i].idx : i \in 1..Len(table)}
SurvivorIdx == IdxOf(SurvivorRows)

\* The row predicate as the specification states it, on the raw text row.
C1_RowOK(r, c) ==
    LET lat == to_numeric(r.decimalLatitude)
        lon == to_numeric(r.decimalLongitude)
        unc == to_numeric(r.coordinateUncertaintyInMeters)
        yr  == to_numeric(r.year)
    IN  /\ r.scientificName # "" /\ r.taxonKey # ""
        /\ r.decimalLatitude # "" /\ r.decimalLongitude # ""
        /\ r.basisOfRecord \in {"HUMAN_OBSERVATION", "MACHINE_OBSERVATION",
                                "PRESERVED_SPECIMEN"}
        /\ (IF unc = None THEN 0 ELSE unc[1]) < 1000
        /\ c.LAT_MIN # None => (lat # None /\ lat[1] >= c.LAT_MIN[1])
        /\ c.LAT_MAX # None => (lat # None /\ lat[1] <= c.LAT_MAX[1])
        /\ c.LON_MIN # None => (lon # None /\ lon[1] >= c.LON_MIN[1])
        /\ c.LON_MAX # None => (lon # None /\ lon[1] <= c.LON_MAX[1])
        /\ (c.YEAR_MIN # None \/ c.YEAR_MAX # None) =>
              /\ yr # None
              /\ c.YEAR_MIN # None => yr[1] >= c.YEAR_MIN[1]
              /\ c.YEAR_MAX # None => yr[1] <= c.YEAR_MAX[1]

\* C1 (quality filter).  After every batch the surviving rows are exactly the
\* raw rows read so far that satisfy every mandatory predicate and every
\* configured optional bound; the persisted table holds exactly the raw rows
\* that do.  "Non-null" is the raw cell being present; a bound is satisfied
\* only by a parsable value; an unparsable uncertainty counts as null.
C1_QualityFilter ==
    /\ SurvivorIdx = {i \in 1..pos : C1_RowOK(raw[i], cfg)}
    /\ FILTERED_FILE # None =>
          IdxOf(FILTERED_FILE[1]) = {i \in 1..Len(raw) : C1_RowOK(raw[i], cfg)}

C1_Witness ==
    /\ pc = "done"
    /\ cfg.LAT_MIN # None /\ cfg.LON_MAX # None /\ cfg.YEAR_MAX # None
    /\ Len(raw) >= 2
    /\ FILTERED_FILE # None /\ Len(FILTERED_FILE[1]) >= 1
    /\ Len(FILTERED_FILE[1]) < Len(raw)

\* C2 (filtered-dataset invariant), as claimed: every persisted row has a
\* non-null scientific name and taxon key and a non-null numeric latitude and
\* longitude, whatever the configuration and the raw input.
C2_NonNullCoreFields ==
    FILTERED_FILE # None =>
        \A i \in 1..Len(FILTERED_FILE[1]) :
            LET r == FILTERED_FILE[1][i]
            IN  /\ r.scientificName # "" /\ r.taxonKey # ""
                /\ r.decimalLatitude # None /\ r.decimalLongitude # None

\* C3 (uncertainty and basis rules).  Among the rows read so far: a row whose
\* uncertainty is null or unparsable survives exactly when its other fields
\* pass (the uncertainty filter never excludes it); a row with uncertainty
\* >= 1000 never survives; a row whose basis-of-record is not allowed never
\* survives.
C3_UncertaintyAndBasis ==
    \A i \in 1..pos :
        LET r == raw[i]
            unc == to_numeric(r.coordinateUncertaintyInMeters)
        IN  /\ unc = None =>
                  (i \in SurvivorIdx <=>
                      C1_RowOK([r EXCEPT !.coordinateUncertaintyInMeters = "0"], cfg))
            /\ (unc # None /\ unc[1] >= 1000) => i \notin SurvivorIdx
            /\ r.basisOfRecord \notin {"HUMAN_OBSERVATION", "MACHINE_OBSERVATION",
                                       "PRESERVED_SPECIMEN"} => i \notin SurvivorIdx

C3_Witness ==
    /\ pc = "done"
    /\ \E i \in 1..Len(raw) : /\ raw[i].coordinateUncertaintyInMeters = "abc"
                              /\ i \in SurvivorIdx
    /\ \E i \in 1..Len(raw) : /\ raw[i].coordinateUncertaintyInMeters = "1500"
                              /\ i \notin SurvivorIdx
    /\ \E i \in 1..Len(raw) : /\ raw[i].basisOfRecord = "FOSSIL_SPECIMEN"
                              /\ i \notin SurvivorIdx

\* C4 (temporal filter).  With YEAR_MIN or YEAR_MAX configured (one or both)
\* no surviving or persisted row has a null year; with neither configured a
\* row with a null or unparsable year survives exactly when the same row with
\* a valid year would.
C4_TemporalFilter ==
    /\ (cfg.YEAR_MIN # None \/ cfg.YEAR_MAX # None) =>
          /\ \A i \in 1..Len(SurvivorRows) : SurvivorRows[i].year # None
          /\ FILTERED_FILE # None =>
                \A i \in 1..Len(FILTERED_FILE[1]) : FILTERED_FILE[1][i].year # None
    /\ (cfg.YEAR_MIN = None /\ cfg.YEAR_MAX = None) =>
          \A i \in 1..pos :
              to_numeric(raw[i].year) = None =>
                  (i \in SurvivorIdx <=>
                      FilterChunk(<<("idx" :> i) @@ [raw[i] EXCEPT !.year = "2000"]>>,
                                  cfg) # << >>)

C4_Witness ==
    /\ pc = "done"
    /\ cfg.YEAR_MIN = None /\ cfg.YEAR_MAX # None
    /\ \E i \in 1..Len(raw) :
          /\ raw[i].year = "abc"
          /\ C1_RowOK([raw[i] EXCEPT !.year = "2000"], cfg)
          /\ i \notin SurvivorIdx

CountRows(table, f, v) == Cardinality({i \in 1..Len(table) : table[i][f] = v})

\* C5 (counter consistency).  After every batch and at the end of the run the
\* basis counts add up to filtered_records, each count stored in one of the
\* five counters is the number of surviving rows carrying that value, and
\* every value carried by a surviving row is counted.
C5_CounterConsistency ==
    /\ SumOver(basis_counter, DOMAIN basis_counter) = filtered_records
    /\ filtered_records = Len(SurvivorRows)
    /\ \A k \in DOMAIN species_counter :
          species_counter[k] = CountRows(SurvivorRows, "scientificName", k)
    /\ \A k \in DOMAIN taxon_counter :
          taxon_counter[k] = CountRows(SurvivorRows, "taxonKey", k)
    /\ \A k \in DOMAIN country_counter :
          country_counter[k] = CountRows(SurvivorRows, "countryCode", k)
    /\ \A k \in DOMAIN basis_counter :
          basis_counter[k] = CountRows(SurvivorRows, "basisOfRecord", k)
    /\ \A k \in DOMAIN year_counter :
          year_counter[k] = CountRows(SurvivorRows, "year", Some(k))
    /\ \A i \in 1..Len(SurvivorRows) :
          LET r == SurvivorRows[i]
          IN  /\ r.scientificName \in DOMAIN species_counter
              /\ r.taxonKey \in DOMAIN taxon_counter
              /\ r.countryCode # "" => r.countryCode \in DOMAIN country_counter
              /\ r.basisOfRecord \in DOMAIN basis_counter
              /\ r.year # None => r.year[1] \in DOMAIN year_counter

C5_Witness ==
    /\ pc = "read" /\ pos < Len(raw)
    /\ filtered_records >= 1 /\ filtered_records < pos
    /\ Cardinality(DOMAIN species_counter) >= 1

\* C6 (zero survivors), as claimed: when no row survives, the stage writes no
\* filtered table, prints the diagnostic and completes without an error.
C6_ZeroSurvivors ==
    (pc \in {"report", "done", "NameError"} /\ filtered_records = 0) =>
        /\ FILTERED_FILE = None
        /\ "No data after filtering." \in Range(stdout)
        /\ pc # "NameError"

\* configurations that tighten exactly one bound of c
TightenValues ==
    [LAT_MIN |-> {35, 40, 45}, LAT_MAX |-> {35, 40, 45},
     LON_MIN |-> {15, 20, 25}, LON_MAX |-> {15, 20, 25},
     YEAR_MIN |-> {1995, 2000, 2005}, YEAR_MAX |-> {1995, 2000, 2005}]
IsMinBound(b) == b \in {"LAT_MIN", "LON_MIN", "YEAR_MIN"}
Tightenings(c) ==
    {[c EXCEPT ![b] = Some(v)] : <<b, v>> \in
        {bv \in UNION {{<<b, v>> : v \in TightenValues[b]} : b \in DOMAIN TightenValues} :
            \/ c[bv[1]] = None
            \/ c[bv[1]] # None /\ IsMinBound(bv[1]) /\ bv[2] > c[bv[1]][1]
            \/ c[bv[1]] # None /\ ~IsMinBound(bv[1]) /\ bv[2] < c[bv[1]][1]}}

\* C7 (monotonicity).  For the raw input of the run, every configuration that
\* tightens one bound of the run's configuration (raises a minimum, lowers a
\* maximum, or sets an unset bound) filters it to a subset of the persisted
\* rows, hence to no more rows.
C7_Monotonic ==
    FILTERED_FILE # None =>
        \A c2 \in Tightenings(cfg) :
            LET out2 == FilterFrom(raw, 0, chunkSize, c2)
            IN  /\ IdxOf(out2) \subseteq IdxOf(FILTERED_FILE[1])
                /\ Len(out2) <= Len(FILTERED_FILE[1])

C7_Witness ==
    /\ pc = "done"
    /\ cfg.LAT_MAX # None /\ cfg.YEAR_MIN = None
    /\ \E c2 \in Tightenings(cfg) :
          /\ c2.LAT_MAX # cfg.LAT_MAX
          /\ Len(FilterFrom(raw, 0, chunkSize, c2)) < Len(FILTERED_FILE[1])

(***************************************************************************)
(* 03_spatial_join_gbif_natura.py: inputs                                  *)
(***************************************************************************)
\* occurrence rows of the filtered table (numeric columns already parsed by read_csv)
PointRows ==
    {[taxonKey |-> "1341976", scientificName |-> "Apis mellifera",
      decimalLongitude |-> Some(1), decimalLatitude |-> Some(11), year |-> Some(2001)],
     [taxonKey |-> "1340503", scientificName |-> "Bombus terrestris",
      decimalLongitude |-> Some(3), decimalLatitude |-> Some(13), year |-> Some(2003)],
     [taxonKey |-> "1341976", scientificName |-> "Apis mellifera",
      decimalLongitude |-> Some(4), decimalLatitude |-> Some(13), year |-> None],
     [taxonKey |-> "1340503", scientificName |-> "Bombus terrestris",
      decimalLongitude |-> Some(8), decimalLatitude |-> Some(18), year |-> Some(2001)],
     [taxonKey |-> "1341976", scientificName |-> "Apis mellifera",
      decimalLongitude |-> Some(3), decimalLatitude |-> None, year |-> Some(2002)]}

\* site polygons (axis-parallel rectangles, WGS84 degrees); the first two overlap
SiteRows ==
    <<[SITECODE |-> "GR1", SITENAME |-> "Site one", COUNTRY |-> "GR", MS |-> "GR",
       SITETYPE |-> "A", RELEASE |-> "2022",
       geometry |-> [xmin |-> 0, xmax |-> 4, ymin |-> 10, ymax |-> 14]],
      [SITECODE |-> "GR2", SITENAME |-> "Site two", COUNTRY |-> "GR", MS |-> "GR",
       SITETYPE |-> "B", RELEASE |-> "2022",
       geometry |-> [xmin |-> 2, xmax |-> 6, ymin |-> 12, ymax |-> 16]],
      [SITECODE |-> "IT1", SITENAME |-> "Site three", COUNTRY |-> "IT", MS |-> "IT",
       SITETYPE |-> "C", RELEASE |-> "2022",
       geometry |-> [xmin |-> 0, xmax |-> 2, ymin |-> 0, ymax |-> 2]]>>

\* attribute columns a stored layer may carry (geometry apart)
LayerColumns ==
    {{"SITECODE", "SITENAME", "COUNTRY", "SITETYPE"},
     {"SITECODE", "SITENAME", "COUNTRY", "SITETYPE", "RELEASE"},
     {"SITECODE", "SITENAME", "MS", "SITETYPE"},
     {"SITECODE", "SITENAME", "COUNTRY"},
     {"SITENAME", "COUNTRY", "SITETYPE"}}

\* coordinates of a WGS84 rectangle in the projected frame EPSG:3035, and back
Project(g, epsg) ==
    IF epsg = 3035
    THEN [xmin |-> g.xmin * 10 + 500, xmax |-> g.xmax * 10 + 500,
          ymin |-> g.ymin * 10 + 700, ymax |-> g.ymax * 10 + 700]
    ELSE g

\* GeoDataFrame.to_crs(epsg=4326) on one geometry stored in frame `epsg`
to_crs_4326(g, epsg) ==
    IF epsg = 3035
    THEN [xmin |-> (g.xmin - 500) \div 10, xmax |-> (g.xmax - 500) \div 10,
          ymin |-> (g.ymin - 700) \div 10, ymax |-> (g.ymax - 700) \div 10]
    ELSE g

\* a layer: its CRS (<< >> when undefined), its attribute columns, its rows
Layer(crs, cols, which) ==
    [crs |-> crs, columns |-> cols,
     rows |-> [i \in 1..Len(which) |->
                  [attrs |-> [c \in cols |-> SiteRows[which[i]][c]],
                   geometry |-> Project(SiteRows[which[i]].geometry,
                                        IF crs = None THEN 4326 ELSE crs[1])]]]

SiteChoices == {<< >>, <<1>>, <<2>>, <<3>>, <<1, 2>>, <<1, 3>>, <<2, 3>>, <<1, 2, 3>>}

NaturaLayers ==
    {Layer(crs, cols, which) :
        crs \in {None, Some(4326), Some(3035)}, cols \in LayerColumns,
        which \in SiteChoices}

(***************************************************************************)
(* 03_spatial_join_gbif_natura.py: geometry and join                       *)
(***************************************************************************)
\* gpd.points_from_xy(df[COL_LON], df[COL_LAT]): x is the longitude, y the latitude
points_from_xy(r) ==
    IF r.decimalLongitude = None \/ r.decimalLatitude = None THEN None
    ELSE Some([x |-> r.decimalLongitude[1], y |-> r.decimalLatitude[1]])

\* predicate="within": the point lies in the interior of the polygon
Within(pt, g) ==
    /\ pt # None
    /\ g.xmin < pt[1].x /\ pt[1].x < g.xmax
    /\ g.ymin < pt[1].y /\ pt[1].y < g.ymax

\* the right rows matching left row i, in right-index order
Matches(left, right, i) ==
    SelectSeq([j \in 1..Len(right.rows) |-> j],
              LAMBDA j : Within(left[i].geometry, right.rows[j].geometry))

JoinedRow(left, right, i, j) ==
    [src |-> i, point |-> left[i], index_right |-> j,
     site |-> IF j = None THEN [c \in right.columns |-> ""]
              ELSE right.rows[j[1]].attrs]

\* the output rows of left row i
RowsFor(left, right, i, how) ==
    LET m == Matches(left, right, i)
    IN  IF m = << >>
        THEN IF how = "left" THEN <<JoinedRow(left, right, i, None)>> ELSE << >>
        ELSE [n \in 1..Len(m) |-> JoinedRow(left, right, i, Some(m[n]))]

\* mutant: an inner join, which drops the occurrences outside every site
sjoin_inner(left, right) ==
    Flatten([i \in 1..Len(left) |-> RowsFor(left, right, i, "inner")])

\* gpd.sjoin(gdf_points, gdf_natura_join, how="left", predicate="within")
sjoin(left, right) ==
    Flatten([i \in 1..Len(left) |-> RowsFor(left, right, i, "left")])

(***************************************************************************)
(* Join stage: state machine                                               *)
(***************************************************************************)
JoinInit ==
    /\ df_points \in SeqsUpTo(PointRows, MaxPoints)
    /\ natura_src \in NaturaLayers
    /\ gdf_natura = None /\ gdf_natura_join = None /\ gdf_joined = None
    /\ match_report = None /\ OUTPUT_GPKG = None
    /\ jpc = "start"
    /\ FilterIdle
    /\ MetricsIdle
    /\ DownloadIdle /\ SummaryIdle /\ PrepareIdle
    /\ ValidateIdle /\ HandoffIdle

\* lines 127-172: read both inputs; a layer without CRS is fatal; reproject if needed
JoinLoad ==
    /\ jpc = "start"
    /\ IF natura_src.crs = None
       THEN /\ jpc' = "ValueError"
            /\ UNCHANGED gdf_natura
       ELSE /\ gdf_natura' =
                 Some(IF natura_src.crs[1] # 4326
                      THEN [natura_src EXCEPT
                               !.crs = Some(4326),
                               !.rows = [i \in 1..Len(natura_src.rows) |->
                                   [natura_src.rows[i] EXCEPT
                                       !.geometry = to_crs_4326(@, natura_src.crs[1])]]]
                      ELSE natura_src)
            /\ jpc' = "loaded"
    /\ UNCHANGED <<df_points, natura_src, gdf_natura_join, gdf_joined, match_report,
                   OUTPUT_GPKG>>
    /\ UNCHANGED <<filterVars, metricsVars, downloadVars, summaryVars, prepareVars,
                   validateVars, handoffVars>>

\* lines 178-196: keep the four key columns, or every column if one is missing
JoinSelect ==
    /\ jpc = "loaded"
    /\ LET g == gdf_natura[1]
           keep_cols == {"SITECODE", "SITENAME", "COUNTRY", "SITETYPE"}
       IN  gdf_natura_join' =
               Some(IF keep_cols \subseteq g.columns
                    THEN [g EXCEPT
                             !.columns = keep_cols,
                             !.rows = [i \in 1..Len(g.rows) |->
                                 [g.rows[i] EXCEPT
                                     !.attrs = [c \in keep_cols |-> g.rows[i].attrs[c]]]]]
                    ELSE g)
    /\ jpc' = "selected"
    /\ UNCHANGED <<df_points, natura_src, gdf_natura, gdf_joined, match_report,
                   OUTPUT_GPKG>>
    /\ UNCHANGED <<filterVars, metricsVars, downloadVars, summaryVars, prepareVars,
                   validateVars, handoffVars>>

\* line 214: match_ratio = n_matched / len(gdf_joined) * 100 if len(gdf_joined) > 0
\* else 0.0, as the fraction <<numerator, denominator>>
match_ratio(n_matched, n_joined) ==
    IF n_joined > 0 THEN <<n_matched * 100, n_joined>> ELSE <<0, 1>>

\* lines 148-152 and 202-217: build the points, join, log the match count
JoinRun ==
    /\ jpc = "selected"
    /\ LET gdf_points == [i \in 1..Len(df_points) |->
                             ("geometry" :> points_from_xy(df_points[i])) @@ df_points[i]]
           joined == sjoin(gdf_points, gdf_natura_join[1])
       IN  /\ gdf_joined' = Some(joined)
           /\ match_report' =
                 IF "SITECODE" \in gdf_natura_join[1].columns
                 THEN Some([n_matched |->
                               Cardinality({n \in 1..Len(joined) :
                                               joined[n].site["SITECODE"] # ""}),
                            n_rows |-> Len(joined),
                            match_ratio |->
                               match_ratio(
                                  Cardinality({n \in 1..Len(joined) :
                                                  joined[n].site["SITECODE"] # ""}),
                                  Len(joined))])
                 ELSE None
    /\ jpc' = "joined"
    /\ UNCHANGED <<df_points, natura_src, gdf_natura, gdf_natura_join, OUTPUT_GPKG>>
    /\ UNCHANGED <<filterVars, metricsVars, downloadVars, summaryVars, prepareVars,
                   validateVars, handoffVars>>

\* lines 223-227: gdf_joined.to_file(OUTPUT_GPKG, ...)
JoinSave ==
    /\ jpc = "joined"
    /\ OUTPUT_GPKG' = gdf_joined
    /\ jpc' = "saved"
    /\ UNCHANGED <<df_points, natura_src, gdf_natura, gdf_natura_join, gdf_joined,
                   match_report>>
    /\ UNCHANGED <<filterVars, metricsVars, downloadVars, summaryVars, prepareVars,
                   validateVars, handoffVars>>

JoinNext == JoinLoad \/ JoinSelect \/ JoinRun \/ JoinSave

JoinSpec == JoinInit /\ [][JoinNext]_vars

(***************************************************************************)
(* Properties of the join stage                                            *)
(***************************************************************************)
\* the sites of the stored layer that contain occurrence i, decided in WGS84
\* on the occurrence's own coordinates
ContainingSites(i) ==
    {j \in 1..Len(natura_src.rows) :
        LET g == to_crs_4326(natura_src.rows[j].geometry, natura_src.crs[1])
            p == df_points[i]
        IN  /\ p.decimalLongitude # None /\ p.decimalLatitude # None
            /\ g.xmin < p.decimalLongitude[1] /\ p.decimalLongitude[1] < g.xmax
            /\ g.ymin < p.decimalLatitude[1] /\ p.decimalLatitude[1] < g.ymax}

OutputRowsOf(table, i) == {n \in 1..Len(table) : table[n].src = i}

C9_Cardinality(table) ==
    /\ \A i \in 1..Len(df_points) :
          LET rows == OutputRowsOf(table, i)
              sites == ContainingSites(i)
          IN  /\ Cardinality(rows) >= 1
              /\ sites = {} =>
                    /\ Cardinality(rows) = 1
                    /\ \A n \in rows :
                          /\ table[n].index_right = None
                          /\ \A c \in DOMAIN table[n].site : table[n].site[c] = ""
              /\ sites # {} =>
                    /\ Cardinality(rows) = Cardinality(sites)
                    /\ \A j \in sites :
                          Cardinality({n \in rows : table[n].index_right = Some(j)}) = 1
    /\ \A n \in 1..Len(table) :
          /\ table[n].src \in 1..Len(df_points)
          /\ table[n].point.taxonKey = df_points[table[n].src].taxonKey
          /\ table[n].point.decimalLongitude = df_points[table[n].src].decimalLongitude
          /\ table[n].point.decimalLatitude = df_points[table[n].src].decimalLatitude

\* C9 (join cardinality).  In the joined table and in the saved layer: every
\* input occurrence has at least one row; an occurrence inside no polygon has
\* exactly one row, with every site attribute null; an occurrence inside k >= 1
\* polygons has exactly k rows, one per containing site; every row derives
\* from an input occurrence.
C9_JoinCardinality ==
    /\ gdf_joined # None => C9_Cardinality(gdf_joined[1])
    /\ OUTPUT_GPKG # None => C9_Cardinality(OUTPUT_GPKG[1])

C9_Witness ==
    /\ jpc = "saved"
    /\ natura_src.crs = Some(3035)
    /\ Len(df_points) = 2
    /\ Cardinality(ContainingSites(1)) = 2
    /\ ContainingSites(2) = {}
    /\ Len(OUTPUT_GPKG[1]) = 3

(***************************************************************************)
(* 04 / 05 metrics scripts: inputs                                         *)
(***************************************************************************)
EnrichedColumns ==
    {"SITECODE", "SITENAME", "MS", "SITETYPE", "scientificName", "taxonKey", "year"}

\* the column sets an enriched table may carry: all, or all but one
ColumnSets == {EnrichedColumns} \cup {EnrichedColumns \ {c} : c \in EnrichedColumns}

SiteAttrs ==
    [c \in {"", "X", "Y"} |->
        CASE c = "X" -> [SITENAME |-> "Site X", MS |-> "GR", SITETYPE |-> "A"]
          [] c = "Y" -> [SITENAME |-> "Site Y", MS |-> "GR", SITETYPE |-> "B"]
          [] OTHER   -> [SITENAME |-> "", MS |-> "", SITETYPE |-> ""]]

SpeciesOf == ("1341976" :> "Apis mellifera") @@ ("1340503" :> "Bombus terrestris")

EnrichedRow(site, taxon, yr) ==
    [SITECODE |-> site, SITENAME |-> SiteAttrs[site].SITENAME, MS |-> SiteAttrs[site].MS,
     SITETYPE |-> SiteAttrs[site].SITETYPE, scientificName |-> SpeciesOf[taxon],
     taxonKey |-> taxon, year |-> yr]

\* rows of the enriched table; SITECODE "" is an occurrence outside every site
EnrichedRows ==
    {EnrichedRow(site, taxon, yr) :
        site \in {"X"}, taxon \in DOMAIN SpeciesOf,
        yr \in {None, Some(2001), Some(2002), Some(2003)}}
    \cup
    {EnrichedRow(site, taxon, yr) :
        site \in {"", "Y"}, taxon \in DOMAIN SpeciesOf, yr \in {None, Some(2001)}}

EnrichedTables ==
    {[columns |-> cols, rows |-> rows] :
        cols \in ColumnSets, rows \in SeqsUpTo(EnrichedRows, MaxEnriched)}

(***************************************************************************)
(* pandas group-by primitives used by the metrics scripts                  *)
(***************************************************************************)
\* the rows of one group
GroupRows(rows, col, k) == SelectSeq(rows, LAMBDA r : r[col] = k)

\* groupby(col, dropna=True): the group keys are the non-null values of col
GroupKeys(rows, col) == {rows[i][col] : i \in 1..Len(rows)} \ {""}

\* "first": the first non-null value of the column in the group, else null
AggFirst(rows, col) ==
    LET present == SelectSeq(rows, LAMBDA r : r[col] # "")
    IN  IF present = << >> THEN "" ELSE present[1][col]

\* mutant: equal rows of a group are counted once
AggSize_distinct(rows) == Cardinality(Range(rows))

\* "size": the number of rows of the group
AggSize(rows) == Len(rows)

\* mutant: "count", the number of non-null values, repeated ones included
AggNUnique_count(rows, col) ==
    Cardinality({i \in 1..Len(rows) : rows[i][col] # (IF col = "year" THEN None ELSE "")})

\* "nunique": the number of distinct non-null values
AggNUnique(rows, col) ==
    Cardinality({rows[i][col] : i \in 1..Len(rows)} \ {IF col = "year" THEN None ELSE ""})

\* "min" / "max" of the year column, skipping NaN
AggMin(rows, col) == ColMin(rows, col)
AggMax(rows, col) == ColMax(rows, col)

\* the year aggregates added when the table has a year column
YearAggs(rows, has_year) ==
    IF has_year
    THEN [year_min |-> AggMin(rows, "year"), year_max |-> AggMax(rows, "year"),
          n_years |-> Some(AggNUnique(rows, "year"))]
    ELSE [year_min |-> None, year_max |-> None, n_years |-> None]

\* mutant: the restriction to rows with a site code is left out
InSiteRows_unfiltered(tab) == tab.rows

\* df[df[SITE_CODE_COL].notna()], or an empty frame when the column is absent
InSiteRows(tab) ==
    IF "SITECODE" \in tab.columns
    THEN SelectSeq(tab.rows, LAMBDA r : r.SITECODE # "")
    ELSE << >>

\* 04: site-level metrics, one row per SITECODE
SitesMetrics(rows, has_year) ==
    {[key |-> k,
      site_name |-> AggFirst(GroupRows(rows, "SITECODE", k), "SITENAME"),
      ms |-> AggFirst(GroupRows(rows, "SITECODE", k), "MS"),
      site_type |-> AggFirst(GroupRows(rows, "SITECODE", k), "SITETYPE"),
      n_occurrences |-> AggSize(GroupRows(rows, "SITECODE", k)),
      n_species |-> AggNUnique(GroupRows(rows, "SITECODE", k), "scientificName")]
     @@ YearAggs(GroupRows(rows, "SITECODE", k), has_year)
        : k \in GroupKeys(rows, "SITECODE")}

\* 04: member-state metrics, one row per MS
MsMetrics(rows, has_year) ==
    {[key |-> k,
      n_occurrences |-> AggSize(GroupRows(rows, "MS", k)),
      n_sites |-> AggNUnique(GroupRows(rows, "MS", k), "SITECODE"),
      n_species |-> AggNUnique(GroupRows(rows, "MS", k), "scientificName")]
     @@ YearAggs(GroupRows(rows, "MS", k), has_year)
        : k \in GroupKeys(rows, "MS")}

\* arithmetic on nullable numbers: a null operand gives a null result
NumSub(a, b) == IF a = None \/ b = None THEN None ELSE Some(a[1] - b[1])
NumAdd(a, b) == IF a = None \/ b = None THEN None ELSE Some(a[1] + b[1])

\* Series.replace(0, pd.NA)
ReplaceZeroNA(x) == IF x = Some(0) THEN None ELSE x

\* true division of two nullable numbers; the quotient is kept as the pair
\* <<numerator, denominator>>, 0/0 is NaN, and n/0 is the infinity of n's sign
Div(n, d) ==
    IF n = None \/ d = None THEN None
    ELSE IF d[1] = 0 /\ n[1] = 0 THEN None
    ELSE IF d[1] < 0 THEN Some(<<0 - n[1], 0 - d[1]>>)
    ELSE Some(<<n[1], d[1]>>)

\* Series.clip(lower=0, upper=1); NaN stays NaN
Clip01(q) ==
    IF q = None THEN None
    ELSE IF q[1][1] < 0 THEN Some(<<0, 1>>)
    ELSE IF q[1][1] > q[1][2] THEN Some(<<1, 1>>)
    ELSE q

\* 05 lines 252-254
TemporalSpan(year_max, year_min) == NumSub(year_max, year_min)

\* mutant: the single-year special case is left out
TemporalCompleteness_division_only(n_years, temporal_span) ==
    Div(n_years, NumAdd(ReplaceZeroNA(temporal_span), Some(1)))

\* 05 lines 256-263: the division runs on the span with 0 replaced by NA, then
\* the rows whose span is 0 are assigned 1.0
TemporalCompleteness(n_years, temporal_span) ==
    IF temporal_span = Some(0)
    THEN Some(<<1, 1>>)
    ELSE Div(n_years, NumAdd(ReplaceZeroNA(temporal_span), Some(1)))

\* the two derived species columns, added when the table has a year column
SpeciesTemporal(g, has_year) ==
    IF has_year
    THEN [temporal_span |-> TemporalSpan(g.year_max, g.year_min),
          temporal_completeness |->
              TemporalCompleteness(g.n_years, TemporalSpan(g.year_max, g.year_min))]
    ELSE [temporal_span |-> None, temporal_completeness |-> None]

\* 05 lines 230-248: the grouped part of the species table
SpeciesAgg(rows, has_year) ==
    {[key |-> k,
      scientificName |-> AggFirst(GroupRows(rows, "taxonKey", k), "scientificName"),
      n_occurrences |-> AggSize(GroupRows(rows, "taxonKey", k)),
      n_sites |-> AggNUnique(GroupRows(rows, "taxonKey", k), "SITECODE"),
      n_ms |-> AggNUnique(GroupRows(rows, "taxonKey", k), "MS")]
     @@ YearAggs(GroupRows(rows, "taxonKey", k), has_year)
        : k \in GroupKeys(rows, "taxonKey")}

\* 05: species metrics, one row per taxonKey
SpeciesMetrics(rows, has_year) ==
    {g @@ SpeciesTemporal(g, has_year) : g \in SpeciesAgg(rows, has_year)}

\* 05: site-type metrics, one row per SITETYPE
SiteTypeMetrics(rows, has_year) ==
    {[key |-> k,
      n_sites |-> AggNUnique(GroupRows(rows, "SITETYPE", k), "SITECODE"),
      n_occurrences |-> AggSize(GroupRows(rows, "SITETYPE", k)),
      n_species |-> AggNUnique(GroupRows(rows, "SITETYPE", k), "scientificName")]
     @@ YearAggs(GroupRows(rows, "SITETYPE", k), has_year)
        : k \in GroupKeys(rows, "SITETYPE")}

\* 05 lines 322-334: the grouped part of the temporal-gap table, one row per SITECODE
GapsAgg(rows) ==
    {[key |-> k,
      site_name |-> AggFirst(GroupRows(rows, "SITECODE", k), "SITENAME"),
      ms |-> AggFirst(GroupRows(rows, "SITECODE", k), "MS"),
      site_type |-> AggFirst(GroupRows(rows, "SITECODE", k), "SITETYPE"),
      n_occurrences |-> AggSize(GroupRows(rows, "SITECODE", k))]
     @@ YearAggs(GroupRows(rows, "SITECODE", k), TRUE)
        : k \in GroupKeys(rows, "SITECODE")}

\* mutant: the span is taken for the number of expected years
ExpectedYears_span(year_max, year_min) == NumSub(year_max, year_min)

\* 05 lines 337-339
ExpectedYears(year_max, year_min) == NumAdd(NumSub(year_max, year_min), Some(1))

\* mutant: the operands of the subtraction are swapped
MissingYears_swapped(expected_years, n_years) == NumSub(n_years, expected_years)

\* 05 lines 340-342
MissingYears(expected_years, n_years) == NumSub(expected_years, n_years)

\* 05 lines 345-348
GapFraction(missing_years, expected_years) == Clip01(Div(missing_years, expected_years))

\* the three derived columns of the temporal-gap table
GapsDerived(g) ==
    LET expected_years == ExpectedYears(g.year_max, g.year_min)
        missing_years == MissingYears(expected_years, g.n_years)
    IN  [expected_years |-> expected_years,
         missing_years |-> missing_years,
         gap_fraction |-> GapFraction(missing_years, expected_years)]

\* 05: temporal gaps, one row per SITECODE
SitesGaps(rows) == {g @@ GapsDerived(g) : g \in GapsAgg(rows)}

(***************************************************************************)
(* Metrics scripts: state machine                                          *)
(***************************************************************************)
MetricsInit ==
    /\ script \in {"04", "05"}
    /\ joined_tab \in EnrichedTables
    /\ df_in_site = None
    /\ SITES_METRICS_CSV = None /\ MS_METRICS_CSV = None
    /\ SPECIES_METRICS_CSV = None /\ SITETYPE_METRICS_CSV = None
    /\ SITES_GAPS_CSV = None
    /\ mlog = << >>
    /\ exit_status = None
    /\ mpc = "start"
    /\ FilterIdle
    /\ JoinIdle
    /\ DownloadIdle /\ SummaryIdle /\ PrepareIdle
    /\ ValidateIdle /\ HandoffIdle

has_year == "year" \in joined_tab.columns

\* an aggregation naming a column the frame lacks raises KeyError
Crash ==
    /\ mpc' = "KeyError"
    /\ exit_status' = Some(1)

metricsOutputs == <<SITES_METRICS_CSV, MS_METRICS_CSV, SPECIES_METRICS_CSV,
                    SITETYPE_METRICS_CSV, SITES_GAPS_CSV>>

\* 04 lines 166-207 and 05 lines 181-222: column warnings, restriction to the rows
\* with a site code, and the early exit when none is left
MetricsFilter ==
    /\ mpc = "start"
    /\ LET rows == InSiteRows(joined_tab)
           warn == IF EnrichedColumns \ {"year"} \subseteq joined_tab.columns
                   THEN << >>
                   ELSE <<"WARNING: Some expected columns are missing in the joined dataset:">>
           nocode == IF "SITECODE" \in joined_tab.columns THEN << >>
                     ELSE <<"WARNING: No SITECODE column found">>
       IN  /\ df_in_site' = Some(rows)
           /\ IF rows = << >>
              THEN /\ mlog' = mlog \o warn \o nocode \o
                              <<"No occurrences linked to Natura2k sites",
                                "completed (no data)">>
                   /\ exit_status' = Some(0)
                   /\ mpc' = "exit0"
              ELSE /\ mlog' = mlog \o warn \o nocode
                   /\ UNCHANGED exit_status
                   /\ mpc' = IF script = "04" THEN "sites" ELSE "species"
    /\ UNCHANGED <<script, joined_tab, metricsOutputs>>
    /\ UNCHANGED <<filterVars, joinVars, downloadVars, summaryVars, prepareVars,
                   validateVars, handoffVars>>

\* 04 lines 214-246: site-level metrics
M4Sites ==
    /\ mpc = "sites"
    /\ IF {"SITENAME", "MS", "SITETYPE", "taxonKey", "scientificName"}
             \subseteq joined_tab.columns
       THEN /\ SITES_METRICS_CSV' = Some(SitesMetrics(df_in_site[1], has_year))
            /\ mlog' = Append(mlog, "Site-level metrics saved")
            /\ mpc' = "ms"
            /\ UNCHANGED exit_status
       ELSE /\ Crash
            /\ UNCHANGED <<SITES_METRICS_CSV, mlog>>
    /\ UNCHANGED <<script, joined_tab, df_in_site, MS_METRICS_CSV, SPECIES_METRICS_CSV,
                   SITETYPE_METRICS_CSV, SITES_GAPS_CSV>>
    /\ UNCHANGED <<filterVars, joinVars, downloadVars, summaryVars, prepareVars,
                   validateVars, handoffVars>>

\* 04 lines 253-286: member-state metrics
M4MemberStates ==
    /\ mpc = "ms"
    /\ IF "MS" \in joined_tab.columns
       THEN /\ MS_METRICS_CSV' = Some(MsMetrics(df_in_site[1], has_year))
            /\ mlog' = Append(mlog, "MS-level metrics saved")
       ELSE /\ mlog' = Append(mlog, "WARNING: MS column not found")
            /\ UNCHANGED MS_METRICS_CSV
    /\ mpc' = "done"
    /\ exit_status' = Some(0)
    /\ UNCHANGED <<script, joined_tab, df_in_site, SITES_METRICS_CSV,
                   SPECIES_METRICS_CSV, SITETYPE_METRICS_CSV, SITES_GAPS_CSV>>
    /\ UNCHANGED <<filterVars, joinVars, downloadVars, summaryVars, prepareVars,
                   validateVars, handoffVars>>

\* 05 lines 229-275: species metrics
M5Species ==
    /\ mpc = "species"
    /\ IF "taxonKey" \in joined_tab.columns
       THEN IF {"scientificName", "SITECODE", "MS"} \subseteq joined_tab.columns
            THEN /\ SPECIES_METRICS_CSV' = Some(SpeciesMetrics(df_in_site[1], has_year))
                 /\ mlog' = Append(mlog, "Species-level metrics saved")
                 /\ mpc' = "sitetype"
                 /\ UNCHANGED exit_status
            ELSE /\ Crash
                 /\ UNCHANGED <<SPECIES_METRICS_CSV, mlog>>
       ELSE /\ mlog' = Append(mlog, "WARNING: taxonKey column not found")
            /\ mpc' = "sitetype"
            /\ UNCHANGED <<SPECIES_METRICS_CSV, exit_status>>
    /\ UNCHANGED <<script, joined_tab, df_in_site, SITES_METRICS_CSV, MS_METRICS_CSV,
                   SITETYPE_METRICS_CSV, SITES_GAPS_CSV>>
    /\ UNCHANGED <<filterVars, joinVars, downloadVars, summaryVars, prepareVars,
                   validateVars, handoffVars>>

\* 05 lines 282-313: site-type metrics
M5SiteTypes ==
    /\ mpc = "sitetype"
    /\ IF "SITETYPE" \in joined_tab.columns
       THEN IF {"SITECODE", "taxonKey", "scientificName"} \subseteq joined_tab.columns
            THEN /\ SITETYPE_METRICS_CSV' = Some(SiteTypeMetrics(df_in_site[1], has_year))
                 /\ mlog' = Append(mlog, "Site-type-level metrics saved")
                 /\ mpc' = "gaps"
                 /\ UNCHANGED exit_status
            ELSE /\ Crash
                 /\ UNCHANGED <<SITETYPE_METRICS_CSV, mlog>>
       ELSE /\ mlog' = Append(mlog, "WARNING: SITETYPE column not found")
            /\ mpc' = "gaps"
            /\ UNCHANGED <<SITETYPE_METRICS_CSV, exit_status>>
    /\ UNCHANGED <<script, joined_tab, df_in_site, SITES_METRICS_CSV, MS_METRICS_CSV,
                   SPECIES_METRICS_CSV, SITES_GAPS_CSV>>
    /\ UNCHANGED <<filterVars, joinVars, downloadVars, summaryVars, prepareVars,
                   validateVars, handoffVars>>

\* 05 lines 320-363: temporal gaps per site
M5Gaps ==
    /\ mpc = "gaps"
    /\ IF has_year /\ "SITECODE" \in joined_tab.columns
       THEN IF {"SITENAME", "MS", "SITETYPE", "taxonKey"} \subseteq joined_tab.columns
            THEN /\ SITES_GAPS_CSV' = Some(SitesGaps(df_in_site[1]))
                 /\ mlog' = Append(mlog, "Site temporal gaps saved")
                 /\ mpc' = "done"
                 /\ exit_status' = Some(0)
            ELSE /\ Crash
                 /\ UNCHANGED <<SITES_GAPS_CSV, mlog>>
       ELSE /\ mlog' = Append(mlog, "temporal gap metrics will not be produced")
            /\ mpc' = "done"
            /\ exit_status' = Some(0)
            /\ UNCHANGED SITES_GAPS_CSV
    /\ UNCHANGED <<script, joined_tab, df_in_site, SITES_METRICS_CSV, MS_METRICS_CSV,
                   SPECIES_METRICS_CSV, SITETYPE_METRICS_CSV>>
    /\ UNCHANGED <<filterVars, joinVars, downloadVars, summaryVars, prepareVars,
                   validateVars, handoffVars>>

MetricsNext ==
    MetricsFilter \/ M4Sites \/ M4MemberStates \/ M5Species \/ M5SiteTypes \/ M5Gaps

MetricsSpec == MetricsInit /\ [][MetricsNext]_vars

(***************************************************************************)
(* 01_download_gbif.py: inputs and pure steps                              *)
(***************************************************************************)
\* what os.getenv may return for one of the three variables
EnvValues == {None, Some(""), Some("set")}

\* rows of the species list: the two key columns, as text cells
SpeciesRows ==
    {[usageKey |-> "10", acceptedUsageKey |-> ""],
     [usageKey |-> "20", acceptedUsageKey |-> "99"],
     [usageKey |-> "", acceptedUsageKey |-> ""],
     [usageKey |-> "10", acceptedUsageKey |-> "abc"],
     [usageKey |-> "abc", acceptedUsageKey |-> ""],
     [usageKey |-> "20", acceptedUsageKey |-> "10"],
     [usageKey |-> "", acceptedUsageKey |-> "99"]}

\* mutant: an empty string passes the check
NotSet_none_only(v) == v = None

\* `not USERNAME`: the variable is unset or empty
NotSet(v) == v = None \/ v = Some("")

\* mutant: the fallback column is preferred
KeyToUse_usage_first(r) == IF r.usageKey # "" THEN r.usageKey ELSE r.acceptedUsageKey

\* acceptedUsageKey.fillna(usageKey)
KeyToUse(r) == IF r.acceptedUsageKey # "" THEN r.acceptedUsageKey ELSE r.usageKey

\* Series.unique(): the distinct values in order of first appearance
Unique(s) ==
    LET firsts == SelectSeq([i \in 1..Len(s) |-> i],
                            LAMBDA i : \A j \in 1..(i - 1) : s[j] # s[i])
    IN  [n \in 1..Len(firsts) |-> s[firsts[n]]]

\* lines 117-121: key_to_use, rows with a numeric key, astype(int), unique, tolist
UsageKeys(list) ==
    LET kept == SelectSeq(list, LAMBDA r : to_numeric(KeyToUse(r)) # None)
    IN  Unique([i \in 1..Len(kept) |-> to_numeric(KeyToUse(kept[i]))[1]])

\* status codes the submit request may be answered with
SubmitStatuses == {201, 420, 400, 200, 503}

\* mutant: every 2xx answer counts as success
SubmitOutcome_any_2xx(status) ==
    IF status = 420 THEN "rate_limited"
    ELSE IF status < 200 \/ status >= 300 THEN "error" ELSE "created"

\* lines 215-219
SubmitOutcome(status) ==
    IF status = 420 THEN "rate_limited"
    ELSE IF status # 201 THEN "error" ELSE "created"

\* values of the "status" field a status answer may carry (<< >>: no such field)
PollStates ==
    {None, Some("PREPARING"), Some("RUNNING"), Some("SUCCEEDED"), Some("FAILED"),
     Some("CANCELLED"), Some("KILLED")}

\* mutant: a FAILED job is downloaded like a SUCCEEDED one
PollOutcome_failed_breaks(st) ==
    IF st \in {Some("SUCCEEDED"), Some("FAILED")} THEN "break" ELSE "sleep"

\* mutant: a FAILED job is polled again
PollOutcome_failed_sleeps(st) ==
    IF st = Some("SUCCEEDED") THEN "break" ELSE "sleep"

\* mutant: every terminal status other than SUCCEEDED aborts
PollOutcome_terminal(st) ==
    IF st = Some("SUCCEEDED") THEN "break"
    ELSE IF st \in {Some("FAILED"), Some("CANCELLED"), Some("KILLED")} THEN "exit"
    ELSE "sleep"

\* lines 232-237
PollOutcome(st) ==
    IF st = Some("SUCCEEDED") THEN "break"
    ELSE IF st = Some("FAILED") THEN "exit"
    ELSE "sleep"

\* sys.exit(message): status 1 with the message; sys.exit(): status 0
SysExit(code, msg) == Some([code |-> code, msg |-> msg])

(***************************************************************************)
(* Download stage: state machine                                           *)
(***************************************************************************)
DownloadInit ==
    /\ USERNAME \in EnvValues /\ PASSWORD \in EnvValues /\ EMAIL \in EnvValues
    /\ species_df \in SeqsUpTo(SpeciesRows, MaxSpecies)
    /\ usage_keys = None /\ net = << >> /\ posted = None /\ response = None
    /\ state = None /\ polls = 0 /\ slept = 0 /\ OUTPUT_FILE = None
    /\ dstdout = << >> /\ dexit = None
    /\ dpc = "start"
    /\ FilterIdle /\ JoinIdle /\ MetricsIdle /\ SummaryIdle /\ PrepareIdle
    /\ ValidateIdle /\ HandoffIdle

\* lines 71-76: the three secrets are read and checked
DlCredentials ==
    /\ dpc = "start"
    /\ IF NotSet(USERNAME) \/ NotSet(PASSWORD) \/ NotSet(EMAIL)
       THEN /\ dexit' = SysExit(1, "GBIF credentials not set.")
            /\ dpc' = "exit"
       ELSE /\ dpc' = "load"
            /\ UNCHANGED dexit
    /\ UNCHANGED <<USERNAME, PASSWORD, EMAIL, species_df, usage_keys, net, posted,
                   response, state, polls, slept, OUTPUT_FILE, dstdout>>
    /\ UNCHANGED <<filterVars, joinVars, metricsVars, summaryVars, prepareVars,
                   validateVars, handoffVars>>

\* lines 114-127: the species list is read and the taxon keys are built
DlLoadKeys ==
    /\ dpc = "load"
    /\ net' = Append(net, "read SPECIES_FILE")
    /\ usage_keys' = Some(UsageKeys(species_df))
    /\ dstdout' = Append(dstdout, "Number of taxon keys:")
    /\ IF UsageKeys(species_df) = << >>
       THEN /\ dexit' = SysExit(1, "No valid taxon keys found.")
            /\ dpc' = "exit"
       ELSE /\ dpc' = "submit"
            /\ UNCHANGED dexit
    /\ UNCHANGED <<USERNAME, PASSWORD, EMAIL, species_df, posted, response, state,
                   polls, slept, OUTPUT_FILE>>
    /\ UNCHANGED <<filterVars, joinVars, metricsVars, summaryVars, prepareVars,
                   validateVars, handoffVars>>

\* lines 152-222: the predicate is built and posted; the answer is examined
DlSubmit ==
    /\ dpc = "submit"
    /\ \E status \in SubmitStatuses :
          /\ net' = Append(net, "POST download/request")
          /\ posted' = usage_keys
          /\ response' = Some(status)
          /\ CASE SubmitOutcome(status) = "rate_limited" ->
                    /\ dexit' = SysExit(1, "Too many active downloads.")
                    /\ dpc' = "exit"
                    /\ UNCHANGED dstdout
               [] SubmitOutcome(status) = "error" ->
                    /\ dstdout' = dstdout \o <<"Error submitting download:", "status code",
                                               "response text">>
                    /\ dexit' = SysExit(0, "")
                    /\ dpc' = "exit"
               [] OTHER ->
                    /\ dstdout' = Append(dstdout, "Download request submitted.")
                    /\ dpc' = "poll"
                    /\ UNCHANGED dexit
    /\ UNCHANGED <<USERNAME, PASSWORD, EMAIL, species_df, usage_keys, state, polls,
                   slept, OUTPUT_FILE>>
    /\ UNCHANGED <<filterVars, joinVars, metricsVars, summaryVars, prepareVars,
                   validateVars, handoffVars>>

\* lines 228-237: one pass of the polling loop
DlPoll ==
    /\ dpc = "poll"
    /\ polls < MaxPolls
    /\ \E st \in PollStates :
          /\ net' = Append(net, "GET download/status")
          /\ state' = st
          /\ polls' = polls + 1
          /\ CASE PollOutcome(st) = "break" ->
                    /\ dstdout' = Append(dstdout, "Download ready.")
                    /\ dpc' = "download"
                    /\ UNCHANGED <<dexit, slept>>
               [] PollOutcome(st) = "exit" ->
                    /\ dexit' = SysExit(1, "GBIF download failed.")
                    /\ dpc' = "exit"
                    /\ UNCHANGED <<dstdout, slept>>
               [] OTHER ->
                    /\ slept' = slept + 20
                    /\ dpc' = "poll"
                    /\ UNCHANGED <<dexit, dstdout>>
    /\ UNCHANGED <<USERNAME, PASSWORD, EMAIL, species_df, usage_keys, posted, response,
                   OUTPUT_FILE>>
    /\ UNCHANGED <<filterVars, joinVars, metricsVars, summaryVars, prepareVars,
                   validateVars, handoffVars>>

\* lines 240-250: the archive is streamed to OUTPUT_FILE
DlFetch ==
    /\ dpc = "download"
    /\ net' = net \o <<"GET download.zip", "write OUTPUT_FILE">>
    /\ OUTPUT_FILE' = Some("archive")
    /\ dstdout' = Append(dstdout, "Download complete.")
    /\ dpc' = "done"
    /\ UNCHANGED <<USERNAME, PASSWORD, EMAIL, species_df, usage_keys, posted, response,
                   state, polls, slept, dexit>>
    /\ UNCHANGED <<filterVars, joinVars, metricsVars, summaryVars, prepareVars,
                   validateVars, handoffVars>>

DownloadNext == DlCredentials \/ DlLoadKeys \/ DlSubmit \/ DlPoll \/ DlFetch

DownloadSpec == DownloadInit /\ [][DownloadNext]_vars

\* the script is one sequential process: while a statement is left to run, it runs
DownloadFair == DownloadSpec /\ WF_vars(DownloadNext)

(***************************************************************************)
(* helpers/filtered_data_summary.py                                        *)
(***************************************************************************)
SummaryColumns == {"scientificName", "countryCode", "year", "basisOfRecord"}

\* rows of the filtered table, restricted to the four grouping columns
SummaryRows ==
    {[scientificName |-> "Apis mellifera", countryCode |-> "GR", year |-> Some(2001),
      basisOfRecord |-> "HUMAN_OBSERVATION"],
     [scientificName |-> "Apis mellifera", countryCode |-> "IT", year |-> Some(2003),
      basisOfRecord |-> "HUMAN_OBSERVATION"],
     [scientificName |-> "Bombus terrestris", countryCode |-> "GR", year |-> Some(1990),
      basisOfRecord |-> "PRESERVED_SPECIMEN"],
     [scientificName |-> "Bombus terrestris", countryCode |-> "", year |-> None,
      basisOfRecord |-> "HUMAN_OBSERVATION"],
     [scientificName |-> "Vespa crabro", countryCode |-> "IT", year |-> Some(2001),
      basisOfRecord |-> "MACHINE_OBSERVATION"]}

SummaryTables ==
    {[columns |-> cols, rows |-> rows] :
        cols \in {SummaryColumns} \cup {SummaryColumns \ {c} : c \in SummaryColumns},
        rows \in SeqsUpTo(SummaryRows, MaxSummary)}

\* the missing value of a column: NaN / <NA> for year, the empty cell for text
NullOf(col) == IF col = "year" THEN None ELSE ""

\* df.groupby(col).size().reset_index(name="occurrences"): one row per non-null value
GroupSize(rows, col) ==
    {[key |-> k, occurrences |-> Len(SelectSeq(rows, LAMBDA r : r[col] = k))] :
        k \in {rows[i][col] : i \in 1..Len(rows)} \ {NullOf(col)}}

\* the orderings of a finite set of rows
Orderings(S) ==
    {q \in [1..Cardinality(S) -> S] : \A i, j \in 1..Cardinality(S) : i # j => q[i] # q[j]}

\* mutant: the counts are sorted in ascending order
SortByCount_ascending(S) ==
    {q \in Orderings(S) :
        \A i \in 1..(Len(q) - 1) : q[i].occurrences <= q[i + 1].occurrences}

\* sort_values("occurrences", ascending=False); the order among equal counts is
\* left to the sorting algorithm
SortByCount(S) ==
    {q \in Orderings(S) :
        \A i \in 1..(Len(q) - 1) : q[i].occurrences >= q[i + 1].occurrences}

\* sort_values("year")
SortByYear(S) ==
    {q \in Orderings(S) : \A i \in 1..(Len(q) - 1) : q[i].key[1] <= q[i + 1].key[1]}

SummaryInit ==
    /\ summary_df \in SummaryTables
    /\ SPECIES_FILE = None /\ COUNTRY_FILE = None /\ YEAR_FILE = None /\ BASIS_FILE = None
    /\ spc = "species"
    /\ FilterIdle /\ JoinIdle /\ MetricsIdle /\ DownloadIdle /\ PrepareIdle
    /\ ValidateIdle /\ HandoffIdle

\* lines 66-74
SumSpecies ==
    /\ spc = "species"
    /\ IF "scientificName" \in summary_df.columns
       THEN \E q \in SortByCount(GroupSize(summary_df.rows, "scientificName")) :
               SPECIES_FILE' = Some(q)
       ELSE UNCHANGED SPECIES_FILE
    /\ spc' = "country"
    /\ UNCHANGED <<summary_df, COUNTRY_FILE, YEAR_FILE, BASIS_FILE>>
    /\ UNCHANGED <<filterVars, joinVars, metricsVars, downloadVars, prepareVars,
                   validateVars, handoffVars>>

\* lines 80-88
SumCountry ==
    /\ spc = "country"
    /\ IF "countryCode" \in summary_df.columns
       THEN \E q \in SortByCount(GroupSize(summary_df.rows, "countryCode")) :
               COUNTRY_FILE' = Some(q)
       ELSE UNCHANGED COUNTRY_FILE
    /\ spc' = "year"
    /\ UNCHANGED <<summary_df, SPECIES_FILE, YEAR_FILE, BASIS_FILE>>
    /\ UNCHANGED <<filterVars, joinVars, metricsVars, downloadVars, prepareVars,
                   validateVars, handoffVars>>

\* lines 94-102
SumYear ==
    /\ spc = "year"
    /\ IF "year" \in summary_df.columns
       THEN \E q \in SortByYear(GroupSize(summary_df.rows, "year")) :
               YEAR_FILE' = Some(q)
       ELSE UNCHANGED YEAR_FILE
    /\ spc' = "basis"
    /\ UNCHANGED <<summary_df, SPECIES_FILE, COUNTRY_FILE, BASIS_FILE>>
    /\ UNCHANGED <<filterVars, joinVars, metricsVars, downloadVars, prepareVars,
                   validateVars, handoffVars>>

\* lines 108-118
SumBasis ==
    /\ spc = "basis"
    /\ IF "basisOfRecord" \in summary_df.columns
       THEN \E q \in SortByCount(GroupSize(summary_df.rows, "basisOfRecord")) :
               BASIS_FILE' = Some(q)
       ELSE UNCHANGED BASIS_FILE
    /\ spc' = "done"
    /\ UNCHANGED <<summary_df, SPECIES_FILE, COUNTRY_FILE, YEAR_FILE>>
    /\ UNCHANGED <<filterVars, joinVars, metricsVars, downloadVars, prepareVars,
                   validateVars, handoffVars>>

SummaryNext == SumSpecies \/ SumCountry \/ SumYear \/ SumBasis

SummarySpec == SummaryInit /\ [][SummaryNext]_vars

(***************************************************************************)
(* 02_prepare_natura_sites.py                                              *)
(***************************************************************************)
\* mutant: the layer is kept in the frame it was stored in
Reproject_skipped(layer) == layer

\* lines 116-121: gdf.to_crs(epsg=4326) unless the layer is already in EPSG:4326
Reproject(layer) ==
    IF layer.crs[1] # 4326
    THEN [layer EXCEPT
             !.crs = Some(4326),
             !.rows = [i \in 1..Len(layer.rows) |->
                 [layer.rows[i] EXCEPT !.geometry = to_crs_4326(@, layer.crs[1])]]]
    ELSE layer

\* lines 130-133
PrepareColumns == {"SITECODE", "SITENAME", "COUNTRY", "SITETYPE"}

\* lines 135-148: the four key columns plus geometry, or a copy of the whole layer
CleanColumns(layer) ==
    IF PrepareColumns \subseteq layer.columns
    THEN [layer EXCEPT
             !.columns = PrepareColumns,
             !.rows = [i \in 1..Len(layer.rows) |->
                 [layer.rows[i] EXCEPT
                     !.attrs = [c \in PrepareColumns |-> layer.rows[i].attrs[c]]]]]
    ELSE layer

PrepareInit ==
    /\ NATURA_GPKG \in NaturaLayers
    /\ gdf = None /\ gdf_clean = None /\ PREPARED_GPKG = None
    /\ plog = << >>
    /\ ppc = "start"
    /\ FilterIdle /\ JoinIdle /\ MetricsIdle /\ DownloadIdle /\ SummaryIdle
    /\ ValidateIdle /\ HandoffIdle

\* lines 95-121: load the layer; a layer without CRS is fatal; reproject if needed
PrepLoad ==
    /\ ppc = "start"
    /\ IF NATURA_GPKG.crs = None
       THEN /\ ppc' = "ValueError"
            /\ plog' = Append(plog, "Loaded Natura layer.")
            /\ UNCHANGED gdf
       ELSE /\ gdf' = Some(Reproject(NATURA_GPKG))
            /\ plog' = plog \o <<"Loaded Natura layer.",
                                 IF NATURA_GPKG.crs[1] # 4326
                                 THEN "Reprojecting Natura sites to WGS84 (EPSG:4326)..."
                                 ELSE "Natura layer is already in EPSG:4326.">>
            /\ ppc' = "loaded"
    /\ UNCHANGED <<NATURA_GPKG, gdf_clean, PREPARED_GPKG>>
    /\ UNCHANGED <<filterVars, joinVars, metricsVars, downloadVars, summaryVars,
                   validateVars, handoffVars>>

\* lines 130-150: select the key columns
PrepSelect ==
    /\ ppc = "loaded"
    /\ gdf_clean' = Some(CleanColumns(gdf[1]))
    /\ plog' = IF PrepareColumns \subseteq gdf[1].columns THEN plog
               ELSE Append(plog, "WARNING: Some expected columns are missing:")
    /\ ppc' = "selected"
    /\ UNCHANGED <<NATURA_GPKG, gdf, PREPARED_GPKG>>
    /\ UNCHANGED <<filterVars, joinVars, metricsVars, downloadVars, summaryVars,
                   validateVars, handoffVars>>

\* lines 155-164: write the cleaned layer
PrepSave ==
    /\ ppc = "selected"
    /\ PREPARED_GPKG' = gdf_clean
    /\ plog' = Append(plog, "Done.")
    /\ ppc' = "done"
    /\ UNCHANGED <<NATURA_GPKG, gdf, gdf_clean>>
    /\ UNCHANGED <<filterVars, joinVars, metricsVars, downloadVars, summaryVars,
                   validateVars, handoffVars>>

PrepareNext == PrepLoad \/ PrepSelect \/ PrepSave

PrepareSpec == PrepareInit /\ [][PrepareNext]_vars

(***************************************************************************)
(* 01_validate_spatial_input.py                                            *)
(***************************************************************************)
\* rows of the filtered table as read_csv returns them: a coordinate is a
\* number or NaN
ValidateRows ==
    {[taxonKey |-> "1341976", scientificName |-> "Apis mellifera",
      decimalLongitude |-> lon, decimalLatitude |-> lat] :
        lon \in {None, Some(0 - 181), Some(0 - 180), Some(25), Some(180)},
        lat \in {None, Some(0 - 90), Some(38), Some(90), Some(91)}}

\* df[col].isna().sum()
isna_sum(table, col) == Cardinality({i \in 1..Len(table) : table[i][col] = None})

\* Series.between(left, right), one element: (v >= left) & (v <= right), which
\* is False for NaN
between(v, left, right) == v # None /\ left <= v[1] /\ v[1] <= right

ValidateInit ==
    /\ validate_zip \in SeqsUpTo(ValidateRows, MaxValidate)
    /\ validate_df = None /\ vlog = None
    /\ vpc = "start"
    /\ FilterIdle /\ JoinIdle /\ MetricsIdle
    /\ DownloadIdle /\ SummaryIdle /\ PrepareIdle /\ HandoffIdle

\* lines 119-187: read the table, count the missing coordinates, test the
\* ranges, log the summary
Validate ==
    /\ vpc = "start"
    /\ LET df == validate_zip
           missing_lon == isna_sum(df, "decimalLongitude")
           missing_lat == isna_sum(df, "decimalLatitude")
           lat_range_ok == \A i \in 1..Len(df) : between(df[i].decimalLatitude, 0 - 90, 90)
           lon_range_ok == \A i \in 1..Len(df) :
                               between(df[i].decimalLongitude, 0 - 180, 180)
       IN  /\ validate_df' = Some(df)
           /\ vlog' = Some(
                 [shape |-> Len(df),
                  missing_lon |-> missing_lon,
                  missing_lat |-> missing_lat,
                  lat_range_ok |-> lat_range_ok,
                  lon_range_ok |-> lon_range_ok,
                  summary |->
                     <<IF missing_lon = 0 /\ missing_lat = 0
                       THEN "No missing coordinate values."
                       ELSE "Missing coordinate values detected (these rows will be removed).",
                       IF lat_range_ok /\ lon_range_ok
                       THEN "Coordinate ranges are valid."
                       ELSE "Invalid coordinate values detected (these rows will be cleaned).",
                       "Dataset is structurally ready: GeoDataFrame conversion and spatial join.",
                       "=== Dataset validation completed ===">>])
    /\ vpc' = "done"
    /\ UNCHANGED validate_zip
    /\ UNCHANGED <<filterVars, joinVars, metricsVars, downloadVars, summaryVars,
                   prepareVars, handoffVars>>

ValidateSpec == ValidateInit /\ [][Validate]_vars

(***************************************************************************)
(* File hand-off: the paths each script builds from its DATASET_NAME        *)
(***************************************************************************)
DatasetNames == {"IAS", "BIRDS", "HABITATS"}

\* 02_filter_gbif_dataset.py lines 68-87: FILTERED_FILE, a plain CSV
FILTERED_FILE_path(ds) ==
    [dir |-> <<"data", "filtered">>,
     base |-> <<"GBIF", ds, "filtered_occurrences">>, ext |-> "csv"]

\* 01_validate_spatial_input.py lines 45-62: ZIP_PATH, a ZIP holding INNER_CSV
ZIP_PATH(ds) ==
    [dir |-> <<"data", "filtered", ds>>,
     base |-> <<"GBIF", ds, "filtered_occurrences">>, ext |-> "zip"]

\* helpers/filtered_data_summary.py line 32: ZIP_FILE, relative to the working directory
SUMMARY_ZIP_FILE(ds) ==
    [dir |-> <<"Filtered_datasets">>,
     base |-> <<"GBIF", ds, "filtered_occurrences">>, ext |-> "zip"]

\* 03_spatial_join_gbif_natura.py lines 44-71: FILTERED_ZIP
FILTERED_ZIP(ds) ==
    [dir |-> <<"data", "filtered", ds>>,
     base |-> <<"GBIF", ds, "filtered_occurrences">>, ext |-> "zip"]

\* 03_spatial_join_gbif_natura.py lines 48-82: OUTPUT_GPKG
OUTPUT_GPKG_path(ds) ==
    [dir |-> <<"data", "processed">>,
     base |-> <<"GBIF", ds, "with_natura_sites">>, ext |-> "gpkg"]

\* 04 lines 59-82 and 05 lines 71-95: JOINED_GPKG
JOINED_GPKG(ds) ==
    [dir |-> <<"data", "processed", ds>>,
     base |-> <<"GBIF", ds, "with_natura_sites">>, ext |-> "gpkg"]

\* the order in which the scripts are run
Stages == <<"filter", "validate", "summary", "join", "metrics04", "metrics05">>

HandoffInit ==
    /\ names \in [Range(Stages) -> DatasetNames]
    /\ files = {}
    /\ found = << >>
    /\ hpc = 0
    /\ FilterIdle /\ JoinIdle /\ MetricsIdle /\ DownloadIdle /\ SummaryIdle
    /\ PrepareIdle /\ ValidateIdle

\* the next script is run: it fails with FileNotFoundError unless the path it
\* reads exists, and otherwise writes the path it builds for its output (the
\* raw archive and the prepared site layer are taken to be in place)
RunStage ==
    /\ hpc < Len(Stages)
    /\ LET st == Stages[hpc + 1]
           ds == names[st]
           reads == CASE st = "filter" -> {}
                      [] st = "validate" -> {ZIP_PATH(ds)}
                      [] st = "summary" -> {SUMMARY_ZIP_FILE(ds)}
                      [] st = "join" -> {FILTERED_ZIP(ds)}
                      [] OTHER -> {JOINED_GPKG(ds)}
           writes == CASE st = "filter" -> {FILTERED_FILE_path(ds)}
                       [] st = "join" -> {OUTPUT_GPKG_path(ds)}
                       [] OTHER -> {}
       IN  /\ found' = Append(found, reads \subseteq files)
           /\ files' = IF reads \subseteq files THEN files \cup writes ELSE files
    /\ hpc' = hpc + 1
    /\ UNCHANGED names
    /\ UNCHANGED <<filterVars, joinVars, metricsVars, downloadVars, summaryVars,
                   prepareVars, validateVars>>

HandoffSpec == HandoffInit /\ [][RunStage]_vars

(***************************************************************************)
(* The stages, each run on its own                                         *)
(***************************************************************************)
Init ==
    \/ FilterInit \/ JoinInit \/ MetricsInit \/ DownloadInit \/ SummaryInit
    \/ PrepareInit \/ ValidateInit \/ HandoffInit
Next ==
    \/ FilterNext \/ JoinNext \/ MetricsNext \/ DownloadNext \/ SummaryNext
    \/ PrepareNext \/ Validate \/ RunStage
Spec == Init /\ [][Next]_vars

(***************************************************************************)
(* Properties of the metrics scripts                                       *)
(***************************************************************************)
\* the enriched rows that carry a site code
MatchedIdx ==
    IF "SITECODE" \in joined_tab.columns
    THEN {i \in 1..Len(joined_tab.rows) : joined_tab.rows[i].SITECODE # ""}
    ELSE {}

YearsOf(S) == {joined_tab.rows[i].year[1] : i \in {j \in S : joined_tab.rows[j].year # None}}

\* every row of an output table aggregates exactly the matched rows of its group
FromMatchedOnly(out, col) ==
    out # None =>
        \A g \in out[1] :
            LET grp == {i \in MatchedIdx : joined_tab.rows[i][col] = g.key}
            IN  /\ g.n_occurrences = Cardinality(grp)
                /\ grp # {}
                /\ has_year =>
                      /\ g.n_years = Some(Cardinality(YearsOf(grp)))
                      /\ g.year_min = IF YearsOf(grp) = {} THEN None
                                      ELSE Some(Min(YearsOf(grp)))
                      /\ g.year_max = IF YearsOf(grp) = {} THEN None
                                      ELSE Some(Max(YearsOf(grp)))

\* C10 (metrics restriction and empty result).  Every row of every output of
\* both metrics scripts aggregates only enriched rows with a non-null site
\* code; once the restriction has run with no such row (or no site-code
\* column) the script has logged the no-data message, exited with status 0
\* and written none of its outputs, and it exits that way in no other case.
C10_RestrictionAndEmpty ==
    /\ FromMatchedOnly(SITES_METRICS_CSV, "SITECODE")
    /\ FromMatchedOnly(MS_METRICS_CSV, "MS")
    /\ FromMatchedOnly(SPECIES_METRICS_CSV, "taxonKey")
    /\ FromMatchedOnly(SITETYPE_METRICS_CSV, "SITETYPE")
    /\ FromMatchedOnly(SITES_GAPS_CSV, "SITECODE")
    /\ (mpc # "start" /\ MatchedIdx = {}) =>
          /\ mpc = "exit0"
          /\ exit_status = Some(0)
          /\ "No occurrences linked to Natura2k sites" \in Range(mlog)
          /\ \A i \in 1..Len(metricsOutputs) : metricsOutputs[i] = None
    /\ mpc = "exit0" => MatchedIdx = {}

C10_Witness ==
    /\ mpc = "exit0"
    /\ script = "05"
    /\ "SITECODE" \in joined_tab.columns
    /\ Len(joined_tab.rows) = 2

\* the matched rows of one group of an output table
GroupIdx(col, k) == {i \in MatchedIdx : joined_tab.rows[i][col] = k}

\* the quotient q is the rational n / d
FracIs(q, n, d) == q # None /\ q[1][2] # 0 /\ q[1][1] * d = n * q[1][2]

\* C11 (temporal completeness).  For every taxon of the species table with at
\* least one non-null year, temporal_span = year_max - year_min and
\* temporal_completeness = n_years / (temporal_span + 1); a taxon seen in
\* exactly one distinct year has span 0 and completeness exactly 1.
C11_TemporalCompleteness ==
    (SPECIES_METRICS_CSV # None /\ has_year) =>
        \A g \in SPECIES_METRICS_CSV[1] :
            LET ys == YearsOf(GroupIdx("taxonKey", g.key))
            IN  ys # {} =>
                   /\ g.temporal_span = Some(Max(ys) - Min(ys))
                   /\ FracIs(g.temporal_completeness, Cardinality(ys), Max(ys) - Min(ys) + 1)
                   /\ Cardinality(ys) = 1 =>
                         /\ g.temporal_span = Some(0)
                         /\ g.temporal_completeness = Some(<<1, 1>>)

C11_Witness ==
    /\ SPECIES_METRICS_CSV # None
    /\ has_year
    /\ Len(joined_tab.rows) = 2
    /\ \E g \in SPECIES_METRICS_CSV[1] :
          /\ g.n_occurrences = 2
          /\ g.n_years = Some(1)
          /\ g.temporal_span = Some(0)
          /\ g.temporal_completeness = Some(<<1, 1>>)

\* C12 (gap fraction bounds).  For every site of the temporal-gap table with
\* at least one non-null year, 0 <= gap_fraction <= 1, and gap_fraction is 0
\* exactly when missing_years is 0.
C12_GapFractionBounds ==
    SITES_GAPS_CSV # None =>
        \A g \in SITES_GAPS_CSV[1] :
            YearsOf(GroupIdx("SITECODE", g.key)) # {} =>
               /\ g.gap_fraction # None
               /\ g.gap_fraction[1][2] > 0
               /\ 0 <= g.gap_fraction[1][1]
               /\ g.gap_fraction[1][1] <= g.gap_fraction[1][2]
               /\ (g.gap_fraction[1][1] = 0) <=> (g.missing_years = Some(0))

C12_Witness ==
    /\ SITES_GAPS_CSV # None
    /\ \E g \in SITES_GAPS_CSV[1] :
          /\ g.n_years = Some(2)
          /\ g.missing_years = Some(0)
          /\ g.gap_fraction # None
          /\ g.gap_fraction[1][1] = 0

\* C13 (gap derivation).  For every site of the temporal-gap table, year_min
\* and year_max are the smallest and largest non-null year of its matched rows,
\* n_years the number of distinct non-null years, expected_years = year_max -
\* year_min + 1, missing_years = expected_years - n_years and gap_fraction =
\* missing_years / expected_years (all null for a site without any year).
C13_GapDerivation ==
    SITES_GAPS_CSV # None =>
        \A g \in SITES_GAPS_CSV[1] :
            LET ys == YearsOf(GroupIdx("SITECODE", g.key))
            IN  /\ g.n_years = Some(Cardinality(ys))
                /\ ys = {} =>
                      /\ g.year_min = None /\ g.year_max = None
                      /\ g.expected_years = None /\ g.missing_years = None
                      /\ g.gap_fraction = None
                /\ ys # {} =>
                      /\ g.year_min = Some(Min(ys))
                      /\ g.year_max = Some(Max(ys))
                      /\ g.expected_years = Some(Max(ys) - Min(ys) + 1)
                      /\ g.missing_years = Some(Max(ys) - Min(ys) + 1 - Cardinality(ys))
                      /\ FracIs(g.gap_fraction, Max(ys) - Min(ys) + 1 - Cardinality(ys),
                                Max(ys) - Min(ys) + 1)

\* the site with years {2001, 2003}
C13_Witness ==
    /\ SITES_GAPS_CSV # None
    /\ \E g \in SITES_GAPS_CSV[1] :
          /\ YearsOf(GroupIdx("SITECODE", g.key)) = {2001, 2003}
          /\ g.year_min = Some(2001) /\ g.year_max = Some(2003)
          /\ g.n_years = Some(2)
          /\ g.expected_years = Some(3)
          /\ g.missing_years = Some(1)
          /\ g.gap_fraction = Some(<<1, 3>>)

\* the expected columns the enriched table lacks (04 lines 167-178)
MissingExpected == (EnrichedColumns \ {"SITECODE", "year"}) \ joined_tab.columns

\* C14 (soft degradation on a missing column).  When the enriched table has
\* matched rows but lacks one of SITENAME, MS, SITETYPE, scientificName or
\* taxonKey, the script records a warning, never aborts with an exception, and
\* ends having written every output that does not need the missing column:
\* with MS missing the site-level, site-type and temporal-gap outputs, with
\* SITETYPE missing the species and temporal-gap outputs.
C14_SoftDegradation ==
    (MatchedIdx # {} /\ MissingExpected # {} /\ mpc # "start") =>
        /\ "WARNING: Some expected columns are missing in the joined dataset:" \in Range(mlog)
        /\ mpc # "KeyError"
        /\ exit_status # Some(1)
        /\ (mpc = "done" /\ script = "04" /\ MissingExpected = {"MS"}) =>
              SITES_METRICS_CSV # None
        /\ (mpc = "done" /\ script = "05" /\ MissingExpected = {"MS"}) =>
              SITETYPE_METRICS_CSV # None /\ SITES_GAPS_CSV # None
        /\ (mpc = "done" /\ script = "05" /\ MissingExpected = {"SITETYPE"}) =>
              SPECIES_METRICS_CSV # None /\ SITES_GAPS_CSV # None

(***************************************************************************)
(* Properties of the download script                                       *)
(***************************************************************************)
\* the chosen key of row i of the species list: preferred column, else fallback
ChosenKey(i) ==
    IF species_df[i].acceptedUsageKey # "" THEN species_df[i].acceptedUsageKey
    ELSE species_df[i].usageKey

IntegerText == ("10" :> 10) @@ ("20" :> 20) @@ ("99" :> 99)

\* the keys the species list selects
SelectedKeys ==
    {IntegerText[ChosenKey(i)] :
        i \in {j \in 1..Len(species_df) : ChosenKey(j) \in DOMAIN IntegerText}}

\* C15 (taxon-key selection).  The taxon keys built from the species list, and
\* those of every predicate posted, are exactly the chosen keys (preferred
\* column if present, else fallback) of the rows whose chosen key is numeric,
\* without duplicates.
C15_TaxonKeySelection ==
    /\ usage_keys # None =>
          /\ Range(usage_keys[1]) = SelectedKeys
          /\ Len(usage_keys[1]) = Cardinality(SelectedKeys)
    /\ posted # None =>
          /\ Range(posted[1]) = SelectedKeys
          /\ Len(posted[1]) = Cardinality(SelectedKeys)

\* rows {usageKey 10, acceptedUsageKey none} and {usageKey 20, acceptedUsageKey 99}
C15_Witness ==
    /\ species_df = <<[usageKey |-> "10", acceptedUsageKey |-> ""],
                      [usageKey |-> "20", acceptedUsageKey |-> "99"]>>
    /\ posted = Some(<<10, 99>>)

\* C16 (credentials).  If one of the three secrets is unset or empty, the run
\* has, once past the check, exited with the credentials message without
\* reading the species list, sending any request or writing the archive.
C16_Credentials ==
    ((USERNAME \in {None, Some("")} \/ PASSWORD \in {None, Some("")}
        \/ EMAIL \in {None, Some("")}) /\ dpc \notin {"start", "idle"}) =>
        /\ dpc = "exit"
        /\ dexit = Some([code |-> 1, msg |-> "GBIF credentials not set."])
        /\ net = << >>
        /\ usage_keys = None /\ posted = None /\ response = None
        /\ OUTPUT_FILE = None

C16_Witness ==
    /\ dpc = "exit"
    /\ USERNAME = Some("set") /\ PASSWORD = Some("") /\ EMAIL = Some("set")
    /\ Len(species_df) = 2
    /\ net = << >>

\* C17 (submission failure policy).  After an answer 420 the run has exited
\* with the 'too many active downloads' message; after any other answer than
\* 201 it has printed the status code and the response text and exited; in both
\* cases it posted once, never polled, never downloaded, never wrote the archive.
C17_SubmissionFailure ==
    (response # None /\ response # Some(201)) =>
        /\ dpc = "exit"
        /\ response = Some(420) =>
              dexit = Some([code |-> 1, msg |-> "Too many active downloads."])
        /\ response # Some(420) =>
              /\ dexit # None
              /\ {"Error submitting download:", "status code", "response text"}
                    \subseteq Range(dstdout)
        /\ Cardinality({i \in 1..Len(net) : net[i] = "POST download/request"}) = 1
        /\ "GET download/status" \notin Range(net)
        /\ "GET download.zip" \notin Range(net)
        /\ polls = 0 /\ slept = 0
        /\ OUTPUT_FILE = None

C17_Witness ==
    /\ response = Some(200)
    /\ dpc = "exit"
    /\ net = <<"read SPECIES_FILE", "POST download/request">>

\* C18 (completion polling).  Every status check has exactly one of three
\* outcomes: SUCCEEDED ends polling and leads to the download; FAILED aborts
\* the run; any other answer (no status field, or any other value) is followed
\* by a 20-second sleep and another check.
C18_Polling ==
    [][(dpc = "poll" /\ polls' = polls + 1) =>
          \/ /\ state' = Some("SUCCEEDED")
             /\ dpc' = "download" /\ slept' = slept /\ dexit' = None
          \/ /\ state' = Some("FAILED")
             /\ dpc' = "exit" /\ slept' = slept
             /\ dexit' = Some([code |-> 1, msg |-> "GBIF download failed."])
          \/ /\ state' \notin {Some("SUCCEEDED"), Some("FAILED")}
             /\ dpc' = "poll" /\ slept' = slept + 20 /\ dexit' = None]_vars

\* a job answered CANCELLED on every check is still being polled
C18_Witness ==
    /\ dpc = "poll"
    /\ polls = MaxPolls
    /\ slept = 20 * MaxPolls
    /\ state = Some("CANCELLED")

(***************************************************************************)
(* Properties of the summary helper                                        *)
(***************************************************************************)
\* the table `out` holds one row per distinct non-null value of col, with its count
CountsOf(out, col) ==
    LET present == {i \in 1..Len(summary_df.rows) :
                       summary_df.rows[i][col] # NullOf(col)}
    IN  /\ {out[n].key : n \in 1..Len(out)} = {summary_df.rows[i][col] : i \in present}
        /\ \A m, n \in 1..Len(out) : m # n => out[m].key # out[n].key
        /\ \A n \in 1..Len(out) :
              out[n].occurrences =
                 Cardinality({i \in present : summary_df.rows[i][col] = out[n].key})

NonIncreasing(out) ==
    \A n \in 1..(Len(out) - 1) : out[n].occurrences >= out[n + 1].occurrences

\* the summary of col is well formed once written, and written iff col is present
SummaryOf(file, col, after) ==
    /\ file # None =>
          /\ col \in summary_df.columns
          /\ CountsOf(file[1], col)
          /\ IF col = "year"
             THEN \A n \in 1..(Len(file[1]) - 1) : file[1][n].key[1] < file[1][n + 1].key[1]
             ELSE NonIncreasing(file[1])
    /\ (spc \in after /\ col \in summary_df.columns) => file # None

\* C19 (summary splitter).  For each grouping column present in the filtered
\* table exactly one table is written, with one row per distinct non-null value
\* and its row count, ordered by non-increasing count (species, country, basis)
\* or strictly increasing year; an absent column skips only its own table.
C19_SummarySplitter ==
    /\ SummaryOf(SPECIES_FILE, "scientificName", {"country", "year", "basis", "done"})
    /\ SummaryOf(COUNTRY_FILE, "countryCode", {"year", "basis", "done"})
    /\ SummaryOf(YEAR_FILE, "year", {"basis", "done"})
    /\ SummaryOf(BASIS_FILE, "basisOfRecord", {"done"})

\* the country column is absent; the other three tables are written, the
\* species table with counts 2 and 1 and the year table with two years
C19_Witness ==
    /\ spc = "done"
    /\ "countryCode" \notin summary_df.columns
    /\ COUNTRY_FILE = None
    /\ SPECIES_FILE # None /\ YEAR_FILE # None /\ BASIS_FILE # None
    /\ Len(SPECIES_FILE[1]) = 2
    /\ SPECIES_FILE[1][1].occurrences = 2
    /\ Len(YEAR_FILE[1]) = 2

(***************************************************************************)
(* Properties of the site preparation script                               *)
(***************************************************************************)
\* C20 (site preparation).  A source layer without CRS aborts the run before
\* anything is written; otherwise the persisted layer is in EPSG:4326, having
\* been reprojected iff the source was in another frame; it carries exactly the
\* four key attribute columns (plus geometry) when the source has all four, and
\* else every source column, with a warning logged, and is still written.
C20_SitePreparation ==
    /\ (NATURA_GPKG # None /\ NATURA_GPKG.crs = None /\ ppc # "start") =>
          /\ ppc = "ValueError"
          /\ gdf = None /\ gdf_clean = None /\ PREPARED_GPKG = None
    /\ ppc = "done" => PREPARED_GPKG # None
    /\ PREPARED_GPKG # None =>
          LET out == PREPARED_GPKG[1]
              src == NATURA_GPKG
              four == {"SITECODE", "SITENAME", "COUNTRY", "SITETYPE"}
          IN  /\ out.crs = Some(4326)
              /\ Len(out.rows) = Len(src.rows)
              /\ ("Reprojecting Natura sites to WGS84 (EPSG:4326)..." \in Range(plog))
                    <=> (src.crs # Some(4326))
              /\ \A i \in 1..Len(out.rows) :
                    /\ Project(out.rows[i].geometry, src.crs[1]) = src.rows[i].geometry
                    /\ src.crs = Some(4326) => out.rows[i].geometry = src.rows[i].geometry
                    /\ DOMAIN out.rows[i].attrs = out.columns
                    /\ \A c \in out.columns : out.rows[i].attrs[c] = src.rows[i].attrs[c]
              /\ four \subseteq src.columns => out.columns = four
              /\ ~(four \subseteq src.columns) =>
                    /\ out.columns = src.columns
                    /\ "WARNING: Some expected columns are missing:" \in Range(plog)

\* a layer stored in EPSG:3035 with a RELEASE column besides the four key ones
C20_Witness ==
    /\ ppc = "done"
    /\ NATURA_GPKG.crs = Some(3035)
    /\ "RELEASE" \in NATURA_GPKG.columns
    /\ Len(NATURA_GPKG.rows) = 2
    /\ PREPARED_GPKG # None
    /\ PREPARED_GPKG[1].columns = {"SITECODE", "SITENAME", "COUNTRY", "SITETYPE"}

(***************************************************************************)
(* Properties of the file hand-off                                         *)
(***************************************************************************)
\* C21 (stage hand-off by file).  With one dataset name set in every script,
\* running the scripts in order lets each of them find its input file: the
\* path and container format one stage writes are those the next stages read.
C21_HandOff ==
    ((\A a, b \in DOMAIN names : names[a] = names[b]) /\ hpc = Len(Stages)) =>
        \A i \in 1..Len(found) : found[i]

(***************************************************************************)
(* Ordering and termination of the download script                         *)
(***************************************************************************)
\* C22 (download ordering).  The archive is opened for writing only after a
\* status check of the submitted job has returned SUCCEEDED; a run that has
\* ended in a fatal abort has neither created nor written the archive.
C22_DownloadOrdering ==
    /\ \A i \in 1..Len(net) :
          net[i] = "write OUTPUT_FILE" =>
             /\ state = Some("SUCCEEDED")
             /\ response = Some(201)
             /\ \E j \in 1..(i - 1) : net[j] = "GET download/status"
             /\ \E j \in 1..(i - 1) : net[j] = "POST download/request"
    /\ OUTPUT_FILE # None => "write OUTPUT_FILE" \in Range(net)
    /\ dexit # None =>
          /\ OUTPUT_FILE = None
          /\ "write OUTPUT_FILE" \notin Range(net)
          /\ "GET download.zip" \notin Range(net)

C22_Witness ==
    /\ dpc = "done"
    /\ polls = 2
    /\ slept = 20
    /\ OUTPUT_FILE # None

\* C23 (acquisition termination).  If some status check is answered SUCCEEDED
\* or FAILED the run eventually terminates (download complete or fatal abort);
\* if no status check is ever answered with one of the two, a run that has
\* started polling keeps polling for ever.
C23_Termination ==
    /\ (<>(state \in {Some("SUCCEEDED"), Some("FAILED")})) => <>(dpc \in {"done", "exit"})
    /\ ([](state \notin {Some("SUCCEEDED"), Some("FAILED")})) =>
          [](dpc = "poll" => [](dpc = "poll"))

C23_Witness ==
    /\ dpc = "exit"
    /\ state = Some("FAILED")
    /\ polls = MaxPolls
    /\ slept = 20 * (MaxPolls - 1)

(***************************************************************************)
(* Batching of the filter stage                                            *)
(***************************************************************************)
\* C24 (row order).  The filtered table lists the surviving rows in the order
\* in which they occur in the raw table, within a batch and across batches.
C24_RowOrder ==
    FILTERED_FILE # None =>
        /\ \A i \in 1..(Len(FILTERED_FILE[1]) - 1) :
              FILTERED_FILE[1][i].idx < FILTERED_FILE[1][i + 1].idx
        /\ Len(FILTERED_FILE[1]) = filtered_records

\* three batches of one row; the first and the third row survive
C24_Witness ==
    /\ FILTERED_FILE # None
    /\ chunkSize = 1 /\ Len(raw) = 3
    /\ Len(FILTERED_FILE[1]) = 2
    /\ FILTERED_FILE[1][1].idx = 1 /\ FILTERED_FILE[1][2].idx = 3

\* the survivors when the whole raw table is processed as a single batch
OneBatch == FilterChunk(NextChunk(raw, 0, Len(raw)), cfg)

\* a counter holds exactly the counts of the values of field f in the single batch
CountsOneBatch(counter, f, null) ==
    /\ DOMAIN counter = {OneBatch[i][f] : i \in 1..Len(OneBatch)} \ {null}
    /\ \A k \in DOMAIN counter : counter[k] = CountRows(OneBatch, f, k)

OccurrencesInSites == {i \in 1..Len(df_points) : ContainingSites(i) # {}}

NonNull(table, col) == {table[i][col][1] : i \in {k \in 1..Len(table) : table[k][col] # None}}

\* C26 (spatial validator).  Once the validator has run: the stored table is
\* as it was read, row for row; the log ends with the 'validation completed'
\* message; the logged missing counts are the numbers of null longitudes and
\* null latitudes; the latitude range is logged as valid exactly when every
\* non-null latitude lies in [-90, 90], and the longitude range exactly when
\* every non-null longitude lies in [-180, 180].
C26_SpatialValidator ==
    vpc = "done" =>
        LET r == vlog[1]
        IN  /\ validate_df = Some(validate_zip)
            /\ r.summary[Len(r.summary)] = "=== Dataset validation completed ==="
            /\ r.missing_lon = isna_sum(validate_zip, "decimalLongitude")
            /\ r.missing_lat = isna_sum(validate_zip, "decimalLatitude")
            /\ r.lat_range_ok <=>
                  \A v \in NonNull(validate_zip, "decimalLatitude") : 0 - 90 <= v /\ v <= 90
            /\ r.lon_range_ok <=>
                  \A v \in NonNull(validate_zip, "decimalLongitude") : 0 - 180 <= v /\ v <= 180

(***************************************************************************)
(* Columns handed from the join to the metrics scripts                     *)
(***************************************************************************)
\* the columns of a row of the enriched table: the occurrence's own columns
\* and the site attributes the join attached
ColumnsOfRow(r) == DOMAIN r.point \cup DOMAIN r.site

\* C28 (column hand-off).  When the polygon layer carries SITECODE, SITENAME,
\* COUNTRY and SITETYPE and the join has saved an enriched table with at least
\* one matched occurrence, every row of that table carries each column the
\* metrics scripts reference: SITECODE, SITENAME, MS, SITETYPE,
\* scientificName and taxonKey (the columns the site-level aggregation of the
\* basic metrics script needs in order to run).
C28_ColumnHandOff ==
    (/\ jpc = "saved"
     /\ {"SITECODE", "SITENAME", "COUNTRY", "SITETYPE"} \subseteq natura_src.columns
     /\ \E n \in 1..Len(OUTPUT_GPKG[1]) : OUTPUT_GPKG[1][n].index_right # None)
    => \A n \in 1..Len(OUTPUT_GPKG[1]) :
          EnrichedColumns \ {"year"} \subseteq ColumnsOfRow(OUTPUT_GPKG[1][n])

(***************************************************************************)
(* Temporal gaps: the clamp                                                *)
(***************************************************************************)
\* C29 (clamp is a no-op).  For every site of the temporal-gap table with at
\* least one non-null year: n_years <= year_max - year_min + 1, missing_years
\* >= 0, the ratio missing_years / expected_years is at least 0 and below 1,
\* and the stored gap_fraction is that ratio, unchanged by the clamp.
C29_ClampNoOp ==
    SITES_GAPS_CSV # None =>
        \A g \in SITES_GAPS_CSV[1] :
            YearsOf(GroupIdx("SITECODE", g.key)) # {} =>
               /\ g.n_years[1] <= g.year_max[1] - g.year_min[1] + 1
               /\ g.missing_years[1] >= 0
               /\ g.expected_years[1] > 0
               /\ g.missing_years[1] < g.expected_years[1]
               /\ g.gap_fraction = Some(<<g.missing_years[1], g.expected_years[1]>>)

\* a site with a year missing inside its span: a ratio strictly between 0 and 1
C29_Witness ==
    /\ mpc = "done"
    /\ SITES_GAPS_CSV # None
    /\ \E g \in SITES_GAPS_CSV[1] :
          /\ g.n_occurrences = 2
          /\ g.missing_years # None /\ g.missing_years[1] > 0
          /\ g.gap_fraction # None
          /\ 0 < g.gap_fraction[1][1] /\ g.gap_fraction[1][1] < g.gap_fraction[1][2]

(***************************************************************************)
(* Basic metrics: the site rows partition the matched occurrences          *)
(***************************************************************************)
\* the sum of n_occurrences over the rows of an output table
TotalOccurrences(out) == SumOver([g \in out |-> g.n_occurrences], out)

\* the matched rows whose column col is not null
MatchedWith(col) == {i \in MatchedIdx : joined_tab.rows[i][col] # ""}

\* C30 (site-level partition).  The site-level table has exactly one row per
\* distinct site code of the matched rows and its n_occurrences sum to the
\* number of enriched rows with a non-null site code; the member-state,
\* species and site-type tables count matched rows only, so that a row with
\* a null site code is counted in no table.
C30_SitePartition ==
    /\ SITES_METRICS_CSV # None =>
          LET T == SITES_METRICS_CSV[1]
              codes == {joined_tab.rows[i].SITECODE : i \in MatchedIdx}
          IN  /\ {g.key : g \in T} = codes
              /\ \A k \in codes : Cardinality({g \in T : g.key = k}) = 1
              /\ TotalOccurrences(T) = Cardinality(MatchedIdx)
    /\ MS_METRICS_CSV # None =>
          TotalOccurrences(MS_METRICS_CSV[1]) = Cardinality(MatchedWith("MS"))
    /\ SPECIES_METRICS_CSV # None =>
          TotalOccurrences(SPECIES_METRICS_CSV[1]) = Cardinality(MatchedWith("taxonKey"))
    /\ SITETYPE_METRICS_CSV # None =>
          TotalOccurrences(SITETYPE_METRICS_CSV[1]) = Cardinality(MatchedWith("SITETYPE"))

\* one occurrence inside site X next to one outside every site
C30_Witness ==
    /\ mpc = "done"
    /\ script = "04"
    /\ Len(joined_tab.rows) = 2
    /\ Cardinality(MatchedIdx) = 1
    /\ SITES_METRICS_CSV # None
    /\ \E g \in SITES_METRICS_CSV[1] : g.key = "X" /\ g.n_occurrences = 1
    /\ Cardinality(SITES_METRICS_CSV[1]) = 1

====
